---- MODULE Spec2Model ----
(***************************************************************************)
(* A model of pygmail's mailbox session cache and message lifecycle        *)
(* orchestrator: Mailbox.select / Mailbox.count, MessageBase.delete,       *)
(* Message.save and Message.replace driven through the tornado event loop  *)
(* (async mode), and the blocking GmailMailbox.select / count of the       *)
(* first snapshot of the library.                                          *)
(*                                                                         *)
(* Values that cross a callback boundary are records [kind, typ, data]:    *)
(*   kind "resp"  : an imaplib2 response ((typ, data), cb_arg, error)      *)
(*   kind "bool"  : True / False                                           *)
(*   kind "int"   : a message count                                        *)
(*   kind "conn"  : the imaplib2 connection object of the account          *)
(*   kind "IMAPError", "IMAPClosedError", "EncodingError": error objects   *)
(* data is the response's data list: a sequence of lines, a line being the *)
(* sequence of its whitespace separated tokens (what line.split() gives),  *)
(* a token being the sequence of its characters.                           *)
(***************************************************************************)
EXTENDS Integers, Sequences, FiniteSets, TLC

\* ---------------------------------------------------------------- bounds
\* number of top-level operations started in one behaviour
MaxOps == 2

\* ------------------------------------------------------- program constants
\* message.py:373, the number of SEARCH attempts after which delete gives up
MaxTries == 5
\* message.py:383, seconds to wait before a new SEARCH attempt
RetryDelay == 2

\* -------------------------------------------------------------- universe
\* the mailbox of the message, another mailbox, and the trash folder
Mailboxes == {"INBOX", "Work", "Trash"}
NoMailbox == "None"
MessageMailbox == "INBOX"
trash_folder == "Trash"
Unset == -1

OldUid == <<"7">>
NewUids == {<<"8">>, <<"1", "2">>}
\* the messages a fetch may have produced: flags (ParseFlags(metadata) or []),
\* internal date and raw label list (message.py:178-182)
NoDate == ""
FetchedMessages ==
    { [flags |-> <<>>, internal_date |-> "17-Jul-1996 02:44:25 -0700",
       labels_raw |-> ""],
      [flags |-> <<"\\Seen">>, internal_date |-> "01-Jan-2013 10:00:00 +0000",
       labels_raw |-> "\"\\\\Inbox\" work"],
      [flags |-> <<"\\Seen", "\\Flagged">>,
       internal_date |-> "17-Jul-1996 02:44:25 -0700",
       labels_raw |-> "\"\\\\Inbox\" work"] }

VARIABLES
    connected,             \* account.connected
    connState,             \* account.conn.state: "OPEN" or "LOGOUT"
    last_viewed_mailbox,   \* account.last_viewed_mailbox (name or NoMailbox)
    selected,              \* the mailbox selected on the server connection
    op,                    \* the public operation in progress / last run
    opMailbox,             \* the mailbox the operation was called on
    cacheAtStart,          \* last_viewed_mailbox when the operation started
    opsStarted,            \* number of operations started so far
    was_deleted,           \* the result delete() handed to save's _on_delete
    loop,                  \* tornado IOLoop: callbacks scheduled, in order
    inflight,              \* commands sent and not yet answered
    cmdlog,                \* commands issued by the current operation
    resplog,               \* responses received by the current operation
    results,               \* values delivered to the caller's callback
    raised,                \* exception that escaped a handler, or "none"
    select_callback,       \* the callback Mailbox.select was called with
    count_callback,        \* the callback Mailbox.count was called with
    num_tries,             \* message.num_tries (Unset when deleted)
    deleted_uid,           \* callback_args of _on_received_connection_4
    uid,                   \* message.uid
    flags,                 \* message.flags
    internal_date,         \* message.internal_date
    labels_raw,            \* message.labels_raw
    body,                  \* message.raw: "fetched" or "edited"
    fetched,               \* flags / date / labels / uid as they were fetched
    now,                   \* what time.gmtime() returns
    call,                  \* the library function applied, "none" before
    args,                  \* the arguments it was applied to
    ret,                   \* what it returned or raised
    queue,                 \* pool.queue: the work items not yet taken
    complete_count,        \* pool.complete_count
    work_count,            \* pool.work_count
    lock,                  \* pool.lock: 0 when free, else 1
    threads,               \* the worker threads: position and item in hand
    puts,                  \* items work() has still to put on the queue
    complete_calls,        \* per work() call, the complete_callback calls
    work_container,        \* per work() call, its list of results
    completed              \* per work() call, what complete_callback got

poolVars == <<queue, complete_count, work_count, lock, threads, puts,
              complete_calls, work_container, completed>>
libVars == <<call, args, ret, poolVars>>
vars == <<connected, connState, last_viewed_mailbox, selected, op, opMailbox,
          cacheAtStart, opsStarted, was_deleted, loop, inflight, cmdlog, resplog, results,
          raised, select_callback, count_callback, num_tries, deleted_uid, uid,
          flags,
          internal_date, labels_raw, body, fetched, now, libVars>>

acctVars == <<connected>>
msgVars == <<uid, flags, internal_date, labels_raw, body, fetched, now>>

\* ------------------------------------------------------------------ values
VBool(b) == [kind |-> "bool", typ |-> IF b THEN "True" ELSE "False", data |-> <<>>]
VTrue == VBool(TRUE)
VFalse == VBool(FALSE)
VInt == [kind |-> "int", typ |-> "", data |-> <<>>]
VConn == [kind |-> "conn", typ |-> "", data |-> <<>>]
VNone == [kind |-> "None", typ |-> "", data |-> <<>>]
VResp(typ, data) == [kind |-> "resp", typ |-> typ, data |-> data]

\* errors.py: IMAPError(desc=data, type=typ), IMAPClosedError(...)
IMAPError(desc, type) == [kind |-> "IMAPError", typ |-> type, data |-> desc]
IMAPClosedError == [kind |-> "IMAPClosedError", typ |-> "", data |-> <<>>]

\* utilities.py extract_data / extract_type
extract_data(imap_response) == imap_response.data
extract_type(imap_response) == imap_response.typ

\* errors.py check_for_response_error: an error object, or VNone.
\* A response of None (typ "ABORT": the connection died) is an error too.
check_for_response_error(imap_response) ==
    IF imap_response.typ = "ABORT"
    THEN IMAPError(imap_response.data, "None")
    ELSE IF imap_response.typ # "OK"
         THEN IMAPError(imap_response.data, imap_response.typ)
         ELSE VNone

is_error_object(v) == v.kind \in {"IMAPError", "AuthError", "IMAPClosedError"}

\* a decorator that lets every response through
ignore_imap_response(arg) == VNone

\* errors.py check_imap_response.decorator.inner: the value handed to the
\* callback instead of running the decorated function, or VNone to run it
check_imap_response(arg) ==
    IF arg.kind = "resp" THEN check_for_response_error(arg)
    ELSE IF is_error_object(arg) THEN arg
    ELSE VNone

\* errors.py check_imap_state.decorator.inner
check_imap_state(arg) ==
    IF arg.kind # "conn" \/ connState = "LOGOUT" THEN IMAPClosedError ELSE VNone

\* --------------------------------------------------------------- callbacks
\* a callback is the caller's own function, or the wrapper that _cmd_cb /
\* add_loop_cb builds around a handler: lambda res: schedule_func(handler(res))
Caller == [fn |-> "caller", wrap |-> FALSE]
Wrapper(h) == [fn |-> h, wrap |-> TRUE]
NoCallback == [fn |-> "", wrap |-> FALSE]

\* utilities.py schedule_func(func, secs): queue the call on the event loop;
\* kwargs are the keyword arguments the scheduled lambda passes to fn
schedule_in(q, cb, arg, kwargs, secs) ==
    Append(q, [fn |-> cb.fn, wrap |-> cb.wrap, arg |-> arg, kwargs |-> kwargs,
               secs |-> secs])
schedule_func(q, cb, arg) == schedule_in(q, cb, arg, {}, 0)

\* a call that passes no positional argument at all
VMissing == [kind |-> "missing", typ |-> "", data |-> <<>>]

\* utilities.py _cmd in async mode (func is set)
_cmd(q, cb, arg) == schedule_func(q, cb, arg)

\* loop_cb_args(callback, arg): schedules callback(arg) on the loop
loop_cb_args(q, cb, arg) == schedule_func(q, cb, arg)

\* --------------------------------------------------------------- commands
Command(name, mbox, u, item, value, date, text) ==
    [name |-> name, mbox |-> mbox, uid |-> u, item |-> item,
     value |-> value, date |-> date, text |-> text]
CmdSelect(m) == Command("SELECT", m, <<>>, "", <<>>, "", "")

Issue(c, handler) ==
    /\ inflight' = Append(inflight, [cmd |-> c, cb |-> handler])
    /\ cmdlog' = Append(cmdlog, c)

Running == op # "idle" /\ (loop # <<>> \/ inflight # <<>>)
Finished == op # "idle" /\ loop = <<>> /\ inflight = <<>>

HeadIs(h) == loop # <<>> /\ Head(loop).fn = h /\ ~Head(loop).wrap
Arg == Head(loop).arg

\* ------------------------------------------------------------------- Init
\* pool.py:39-57: no work queued, no thread created
PoolIdle ==
    /\ queue = <<>>
    /\ complete_count = 0
    /\ work_count = 0
    /\ lock = 0
    /\ threads = <<>>
    /\ puts = <<>>
    /\ complete_calls = <<>>
    /\ work_container = <<>>
    /\ completed = <<>>

ProgInit ==
    /\ PoolIdle
    /\ connected = TRUE
    /\ connState = "OPEN"
    /\ last_viewed_mailbox \in Mailboxes \cup {NoMailbox}
    /\ selected = last_viewed_mailbox
    /\ op = "idle"
    /\ opMailbox = NoMailbox
    /\ cacheAtStart = NoMailbox
    /\ opsStarted = 0
    /\ was_deleted = VNone
    /\ loop = <<>>
    /\ inflight = <<>>
    /\ cmdlog = <<>>
    /\ resplog = <<>>
    /\ results = <<>>
    /\ raised = "none"
    /\ select_callback = NoCallback
    /\ count_callback = NoCallback
    /\ num_tries = Unset
    /\ deleted_uid = <<>>
    /\ uid = OldUid
    /\ \E m \in FetchedMessages :
          /\ flags = m.flags
          /\ internal_date = m.internal_date
          /\ labels_raw = m.labels_raw
    /\ body = "fetched"
    /\ fetched = [uid |-> uid, flags |-> flags, internal_date |-> internal_date,
                  labels_raw |-> labels_raw]
    /\ now = "now"

\* no library function has been applied
NoArgs == [none |-> TRUE]
NoRet == [raised |-> "none", value |-> <<>>]
LibIdle == call = "none" /\ args = NoArgs /\ ret = NoRet

Init == ProgInit /\ LibIdle

\* the account and the message at rest, for the library functions' own runs
ProgIdle ==
    /\ ProgInit
    /\ last_viewed_mailbox = NoMailbox
    /\ flags = <<>>
    /\ labels_raw = ""
progVars == <<connected, connState, last_viewed_mailbox, selected, op, opMailbox,
              cacheAtStart, opsStarted, was_deleted, loop, inflight, cmdlog,
              resplog, results, raised, select_callback, count_callback,
              num_tries, deleted_uid, msgVars>>

\* ------------------------------------------------------- Account.connection
\* account.py:256-257, the connected branch: the connection object is handed
\* to the callback through the loop
AccountConnection(q, cb) == loop_cb_args(q, cb, VConn)

\* ----------------------------------------------------------- Mailbox.count
\* mailbox.py:204-223, the body of count()
MailboxCount(q, cb) ==
    /\ count_callback' = cb
    /\ loop' = AccountConnection(q, Wrapper("count_on_connection"))

\* mailbox.py:219-221 _on_connection: no state check, imaplib2 raises
\* "command SELECT illegal in state LOGOUT" on a closed session
count_on_connection ==
    /\ HeadIs("count_on_connection")
    /\ loop' = Tail(loop)
    /\ IF connState = "LOGOUT"
       THEN /\ raised' = "imaplib.error"
            /\ UNCHANGED <<inflight, cmdlog>>
       ELSE /\ Issue(CmdSelect(opMailbox), "count_on_select_complete")
            /\ UNCHANGED raised
    /\ UNCHANGED <<acctVars, connState, last_viewed_mailbox, selected, op,
                   opMailbox, cacheAtStart, opsStarted, was_deleted, resplog, results,
                   select_callback, count_callback, num_tries, deleted_uid,
                   msgVars, libVars>>

\* register_callback_if_error(imap_response, callback): on an error response
\* the error is scheduled for the callback and True is returned
register_callback_if_error(imap_response) == check_for_response_error(imap_response)

\* mailbox.py:212-217 _on_select_complete
count_on_select_complete ==
    /\ HeadIs("count_on_select_complete")
    /\ LET error == register_callback_if_error(Arg) IN
       IF error # VNone
       THEN /\ loop' = loop_cb_args(Tail(loop), count_callback, error)
            /\ UNCHANGED last_viewed_mailbox
       ELSE /\ last_viewed_mailbox' = opMailbox
            /\ loop' = loop_cb_args(Tail(loop), count_callback, VInt)
    /\ UNCHANGED <<acctVars, connState, selected, op, opMailbox, cacheAtStart,
                   opsStarted, was_deleted, inflight, cmdlog, resplog, results, raised,
                   select_callback, count_callback, num_tries, deleted_uid,
                   msgVars, libVars>>

\* ---------------------------------------------------------- Mailbox.select
\* select() that ignores the cached mailbox
MailboxSelect_uncached(q, m, cb) ==
    /\ select_callback' = cb
    /\ MailboxCount(q, Wrapper("on_count_complete"))

\* mailbox.py:374-377, the body of select() called on mailbox m
MailboxSelect(q, m, cb) ==
    /\ select_callback' = cb
    /\ IF m = last_viewed_mailbox
       THEN /\ loop' = loop_cb_args(q, cb, VFalse)
            /\ UNCHANGED count_callback
       ELSE MailboxCount(q, Wrapper("on_count_complete"))

\* mailbox.py:370-372 _on_count_complete
on_count_complete ==
    /\ HeadIs("on_count_complete")
    /\ last_viewed_mailbox' = opMailbox
    /\ loop' = loop_cb_args(Tail(loop), select_callback, VTrue)
    /\ UNCHANGED <<acctVars, connState, selected, op, opMailbox, cacheAtStart,
                   opsStarted, was_deleted, inflight, cmdlog, resplog, results, raised,
                   select_callback, count_callback, num_tries, deleted_uid,
                   msgVars, libVars>>

\* ------------------------------------------------------------ event loop
frameLoop == <<acctVars, connState, last_viewed_mailbox, selected, op,
               opMailbox, cacheAtStart, opsStarted, was_deleted, inflight, cmdlog, resplog,
               results, raised, select_callback, count_callback, num_tries,
               deleted_uid, msgVars, libVars>>
frameIssue == <<acctVars, connState, last_viewed_mailbox, selected, op,
                opMailbox, cacheAtStart, opsStarted, was_deleted, resplog, results, raised,
                select_callback, count_callback, num_tries, deleted_uid,
                msgVars, libVars>>

\* utilities.py:172-174 callback_func, run by the loop: it schedules the
\* handler it wraps with the result it was given
callback_func ==
    /\ loop # <<>>
    /\ Head(loop).wrap
    /\ loop' = Append(Tail(loop), [Head(loop) EXCEPT !.wrap = FALSE])
    /\ UNCHANGED frameLoop

\* the caller's callback receives a final result
caller ==
    /\ HeadIs("caller")
    /\ results' = Append(results, Arg)
    /\ loop' = Tail(loop)
    /\ UNCHANGED <<acctVars, connState, last_viewed_mailbox, selected, op,
                   opMailbox, cacheAtStart, opsStarted, was_deleted, inflight, cmdlog,
                   resplog, raised, select_callback, count_callback,
                   num_tries, deleted_uid, msgVars, libVars>>

\* a handler decorated with check_imap_response(cb) that, on a good result,
\* asks the account for its connection on behalf of the handler next
OnResponse(h, cb, next) ==
    /\ HeadIs(h)
    /\ LET error == check_imap_response(Arg) IN
       loop' = IF error # VNone
               THEN _cmd(Tail(loop), cb, error)
               ELSE AccountConnection(Tail(loop), Wrapper(next))
    /\ UNCHANGED frameLoop

\* a handler decorated with check_imap_state(cb) that issues command c and
\* registers the handler next for its response
OnConnection(h, cb, c, next) ==
    /\ HeadIs(h)
    /\ LET error == check_imap_state(Arg) IN
       IF error # VNone
       THEN /\ loop' = _cmd(Tail(loop), cb, error)
            /\ UNCHANGED <<inflight, cmdlog>>
       ELSE /\ loop' = Tail(loop)
            /\ Issue(c, next)
    /\ UNCHANGED frameIssue

\* ------------------------------------------------------ MessageBase.delete
\* the callback delete() was called with: the caller's, or the wrapper that
\* save() builds around _on_delete (message.py:751)
DeleteCallback == IF op = "delete" THEN Caller ELSE Wrapper("on_delete")

CmdCopy == Command("UID COPY", trash_folder, uid, "", <<>>, "", "")
CmdSearch == Command("UID SEARCH", "", <<>>, "X-GM-RAW", <<"rfc822msgid">>, "", "")
CmdStoreDeleted(u) == Command("UID STORE", "", u, "+FLAGS", <<"\\Deleted">>, "", "")
CmdExpunge == Command("EXPUNGE", "", <<>>, "", <<>>, "", "")

\* message.py:422, the body of delete()
MessageDelete(q) == MailboxSelect(q, MessageMailbox, Wrapper("on_mailbox_select"))

\* message.py:418-420
on_mailbox_select == OnResponse("on_mailbox_select", DeleteCallback, "on_received_connection")

\* message.py:413-416
on_received_connection ==
    OnConnection("on_received_connection", DeleteCallback, CmdCopy, "on_message_moved")

\* message.py:409-411
on_message_moved == OnResponse("on_message_moved", DeleteCallback, "on_received_connection_2")

\* message.py:404-407
on_received_connection_2 ==
    /\ HeadIs("on_received_connection_2")
    /\ LET error == check_imap_state(Arg) IN
       IF error # VNone
       THEN /\ loop' = _cmd(Tail(loop), DeleteCallback, error)
            /\ UNCHANGED <<inflight, cmdlog, num_tries>>
       ELSE /\ num_tries' = 0
            /\ loop' = Tail(loop)
            /\ Issue(CmdSelect(trash_folder), "on_trash_selected")
    /\ UNCHANGED <<acctVars, connState, last_viewed_mailbox, selected, op,
                   opMailbox, cacheAtStart, opsStarted, was_deleted, resplog, results,
                   raised, select_callback, count_callback, deleted_uid,
                   msgVars, libVars>>

\* message.py:391-402.  imap_response is a required positional parameter:
\* a call that passes only force_success=True raises TypeError.
on_trash_selected ==
    /\ HeadIs("on_trash_selected")
    /\ IF Arg = VMissing
       THEN /\ raised' = "TypeError"
            /\ loop' = Tail(loop)
       ELSE /\ UNCHANGED raised
            /\ IF "force_success" \in Head(loop).kwargs
               THEN loop' = AccountConnection(Tail(loop), Wrapper("on_received_connection_3"))
               ELSE LET is_error == check_for_response_error(Arg) IN
                    loop' = IF is_error # VNone
                            THEN _cmd(Tail(loop), DeleteCallback, is_error)
                            ELSE AccountConnection(Tail(loop),
                                                   Wrapper("on_received_connection_3"))
    /\ UNCHANGED <<acctVars, connState, last_viewed_mailbox, selected, op,
                   opMailbox, cacheAtStart, opsStarted, was_deleted, inflight, cmdlog,
                   resplog, results, select_callback, count_callback,
                   num_tries, deleted_uid, msgVars, libVars>>

\* message.py:385-389
on_received_connection_3 ==
    OnConnection("on_received_connection_3", DeleteCallback, CmdSearch,
                 "on_search_for_message_complete")

\* utilities.py:105-106 _cmd_in in async mode: func is scheduled with the
\* arguments that follow is_async, here none, and the keyword arguments
_cmd_in(q, func, secs, kwargs) ==
    schedule_in(q, [fn |-> func, wrap |-> FALSE], VMissing, kwargs, secs)

\* data[0].split()[-1] raises IndexError when there is no line or no token
HasLastToken(data) == Len(data) > 0 /\ Len(data[1]) > 0
\* the first UID of the line instead of the last
FirstToken(data) == data[1][1]
LastToken(data) == data[1][Len(data[1])]

\* message.py:346-383
on_search_for_message_complete ==
    /\ HeadIs("on_search_for_message_complete")
    /\ LET error == check_imap_response(Arg)
           data == extract_data(Arg)
       IN
       IF error # VNone
       THEN /\ loop' = _cmd(Tail(loop), DeleteCallback, error)
            /\ UNCHANGED <<num_tries, deleted_uid, raised>>
       ELSE IF HasLastToken(data)
       THEN /\ deleted_uid' = LastToken(data)
            /\ loop' = AccountConnection(Tail(loop), Wrapper("on_received_connection_4"))
            /\ UNCHANGED <<num_tries, raised>>
       ELSE IF num_tries = Unset
       THEN /\ raised' = "AttributeError"
            /\ loop' = Tail(loop)
            /\ UNCHANGED <<num_tries, deleted_uid>>
       ELSE IF num_tries + 1 = MaxTries
       THEN /\ num_tries' = Unset
            /\ loop' = _cmd(Tail(loop), DeleteCallback, VFalse)
            /\ UNCHANGED <<deleted_uid, raised>>
       ELSE /\ num_tries' = num_tries + 1
            /\ loop' = _cmd_in(Tail(loop), "on_trash_selected", RetryDelay,
                               {"force_success"})
            /\ UNCHANGED <<deleted_uid, raised>>
    /\ UNCHANGED <<acctVars, connState, last_viewed_mailbox, selected, op,
                   opMailbox, cacheAtStart, opsStarted, was_deleted, inflight, cmdlog,
                   resplog, results, select_callback, count_callback,
                   msgVars, libVars>>

\* message.py:339-344
on_received_connection_4 ==
    /\ HeadIs("on_received_connection_4")
    /\ LET error == check_imap_state(Arg) IN
       IF error # VNone
       THEN /\ loop' = _cmd(Tail(loop), DeleteCallback, error)
            /\ UNCHANGED <<inflight, cmdlog, num_tries, raised>>
       ELSE IF num_tries = Unset
       THEN /\ raised' = "AttributeError"
            /\ loop' = Tail(loop)
            /\ UNCHANGED <<inflight, cmdlog, num_tries>>
       ELSE /\ num_tries' = Unset
            /\ loop' = Tail(loop)
            /\ Issue(CmdStoreDeleted(deleted_uid), "on_delete_complete")
            /\ UNCHANGED raised
    /\ UNCHANGED <<acctVars, connState, last_viewed_mailbox, selected, op,
                   opMailbox, cacheAtStart, opsStarted, was_deleted, resplog, results,
                   select_callback, count_callback, deleted_uid, msgVars, libVars>>

\* message.py:335-337
on_delete_complete == OnResponse("on_delete_complete", DeleteCallback, "on_recevieved_connection_5")

\* _on_recevieved_connection_5 sending EXPUNGE and the SELECT that follows it
\* without waiting for the EXPUNGE to be answered
on_recevieved_connection_5_eager ==
    /\ HeadIs("on_recevieved_connection_5")
    /\ loop' = Tail(loop)
    /\ inflight' = inflight \o <<[cmd |-> CmdExpunge, cb |-> "on_expunge_complete"],
                                  [cmd |-> CmdSelect(MessageMailbox),
                                   cb |-> "on_original_mailbox_reselected"]>>
    /\ cmdlog' = cmdlog \o <<CmdExpunge, CmdSelect(MessageMailbox)>>
    /\ UNCHANGED frameIssue

\* message.py:331-333
on_recevieved_connection_5 ==
    OnConnection("on_recevieved_connection_5", DeleteCallback, CmdExpunge,
                 "on_expunge_complete")

\* message.py:327-329
on_expunge_complete == OnResponse("on_expunge_complete", DeleteCallback, "on_recevieved_connection_6")

\* message.py:322-325
on_recevieved_connection_6 ==
    OnConnection("on_recevieved_connection_6", DeleteCallback,
                 CmdSelect(MessageMailbox), "on_original_mailbox_reselected")

\* message.py:318-320
on_original_mailbox_reselected ==
    /\ HeadIs("on_original_mailbox_reselected")
    /\ LET error == check_imap_response(Arg) IN
       loop' = IF error # VNone
               THEN _cmd(Tail(loop), DeleteCallback, error)
               ELSE _cmd(Tail(loop), DeleteCallback, VTrue)
    /\ UNCHANGED frameLoop

\* ------------------------------------------------------------ Message.save
\* the callback save() was called with: the caller's, or the wrapper that
\* replace() builds around _on_save (message.py:883)
SaveCallback == IF op = "save" THEN Caller ELSE Wrapper("on_save")

\* ' '.join(items): the items separated by single spaces, as characters
RECURSIVE JoinSpace(_)
JoinSpace(items) ==
    IF items = <<>> THEN <<>>
    ELSE IF Len(items) = 1 THEN <<items[1]>>
    ELSE <<items[1], " ">> \o JoinSpace(Tail(items))

\* every flag in parentheses of its own, as src/message.py:225 builds it
RECURSIVE ParenEach(_)
ParenEach(fl) ==
    IF fl = <<>> THEN <<>> ELSE <<<<"(", fl[1], ")">>>> \o ParenEach(Tail(fl))
RECURSIVE JoinSpaceSeqs(_)
JoinSpaceSeqs(ss) ==
    IF ss = <<>> THEN <<>>
    ELSE IF Len(ss) = 1 THEN ss[1]
    ELSE ss[1] \o <<" ">> \o JoinSpaceSeqs(Tail(ss))
flags_string_each(fl) == IF fl # <<>> THEN JoinSpaceSeqs(ParenEach(fl)) ELSE <<"(", ")">>

\* message.py:733
flags_string(fl) == IF fl # <<>> THEN <<"(">> \o JoinSpace(fl) \o <<")">> ELSE <<"(", ")">>

\* message.py:736, self.internal_date or time.gmtime()
append_date(d) == IF d # NoDate THEN d ELSE now

\* message.py:721, '(%s)' % (self.labels_raw or '',)
labels_value(l) == <<"(", l, ")">>

\* an APPEND of the text the message was fetched with
CmdAppendFetched == Command("APPEND", MessageMailbox, <<>>, "", flags_string(flags),
                            append_date(internal_date), "fetched")
CmdAppend == Command("APPEND", MessageMailbox, <<>>, "", flags_string(flags),
                     append_date(internal_date), body)
CmdStoreLabels == Command("UID STORE", "", uid, "+X-GM-LABELS",
                          labels_value(labels_raw), "", "")

\* message.py:751, the body of save()
MessageSave(q) == MessageDelete(q)

\* _on_delete without the check_imap_response decorator
on_delete_unchecked ==
    /\ HeadIs("on_delete")
    /\ was_deleted' = Arg
    /\ MailboxSelect(Tail(loop), MessageMailbox, Wrapper("on_select"))
    /\ UNCHANGED <<acctVars, connState, last_viewed_mailbox, selected, op,
                   opMailbox, cacheAtStart, opsStarted, inflight, cmdlog,
                   resplog, results, raised, num_tries, deleted_uid, msgVars, libVars>>

\* message.py:743-745
on_delete ==
    /\ HeadIs("on_delete")
    /\ was_deleted' = Arg
    /\ LET error == check_imap_response(Arg) IN
       IF error # VNone
       THEN /\ loop' = _cmd(Tail(loop), SaveCallback, error)
            /\ UNCHANGED <<select_callback, count_callback>>
       ELSE MailboxSelect(Tail(loop), MessageMailbox, Wrapper("on_select"))
    /\ UNCHANGED <<acctVars, connState, last_viewed_mailbox, selected, op,
                   opMailbox, cacheAtStart, opsStarted, inflight, cmdlog,
                   resplog, results, raised, num_tries, deleted_uid, msgVars, libVars>>

\* message.py:739-741
on_select == OnResponse("on_select", SaveCallback, "save_on_received_connection")

\* message.py:731-737
save_on_received_connection ==
    OnConnection("save_on_received_connection", SaveCallback, CmdAppend, "on_append")

\* data[0].split()[2][:-1]
HasThirdToken(data) == Len(data) > 0 /\ Len(data[1]) >= 3
ThirdTokenButLast(data) == SubSeq(data[1][3], 1, Len(data[1][3]) - 1)

\* _on_append that does not take the new UID from the response
on_append_keeps_uid ==
    /\ HeadIs("on_append")
    /\ LET error == check_imap_response(Arg) IN
       loop' = IF error # VNone
               THEN _cmd(Tail(loop), SaveCallback, error)
               ELSE AccountConnection(Tail(loop), Wrapper("on_post_append_connection"))
    /\ UNCHANGED frameLoop

\* message.py:725-729
on_append ==
    /\ HeadIs("on_append")
    /\ LET error == check_imap_response(Arg)
           data == extract_data(Arg)
       IN
       IF error # VNone
       THEN /\ loop' = _cmd(Tail(loop), SaveCallback, error)
            /\ UNCHANGED <<uid, raised>>
       ELSE IF ~HasThirdToken(data)
       THEN /\ raised' = "IndexError"
            /\ loop' = Tail(loop)
            /\ UNCHANGED uid
       ELSE /\ uid' = ThirdTokenButLast(data)
            /\ loop' = AccountConnection(Tail(loop), Wrapper("on_post_append_connection"))
            /\ UNCHANGED raised
    /\ UNCHANGED <<acctVars, connState, last_viewed_mailbox, selected, op,
                   opMailbox, cacheAtStart, opsStarted, was_deleted, inflight, cmdlog,
                   resplog, results, select_callback, count_callback,
                   num_tries, deleted_uid, flags, internal_date, labels_raw,
                   body, fetched, now, libVars>>

\* message.py:708-723
on_post_append_connection ==
    OnConnection("on_post_append_connection", SaveCallback, CmdStoreLabels,
                 "on_post_labeling")

\* a value that carries a UID
VUid(u) == [kind |-> "uid", typ |-> "", data |-> <<<<u>>>>]

\* _on_post_labeling that reports the message's UID
on_post_labeling_uid ==
    /\ HeadIs("on_post_labeling")
    /\ LET error == check_imap_response(Arg) IN
       loop' = IF error # VNone
               THEN _cmd(Tail(loop), SaveCallback, error)
               ELSE _cmd(Tail(loop), SaveCallback, VUid(uid))
    /\ UNCHANGED frameLoop

\* message.py:704-706
on_post_labeling ==
    /\ HeadIs("on_post_labeling")
    /\ LET error == check_imap_response(Arg) IN
       loop' = IF error # VNone
               THEN _cmd(Tail(loop), SaveCallback, error)
               ELSE _cmd(Tail(loop), SaveCallback, VTrue)
    /\ UNCHANGED frameLoop

\* --------------------------------------------------------- Message.replace
EncodingError == [kind |-> "EncodingError", typ |-> "", data |-> <<>>]

\* message.py:880-881
on_save ==
    /\ HeadIs("on_save")
    /\ loop' = _cmd(Tail(loop), Caller, Arg)
    /\ UNCHANGED frameLoop

\* ------------------------------------------------- the server (transport)
Line(tokens) == <<tokens>>
ErrData(c) == Line(<<<<c.name>>>>)
AppendData(newuid) ==
    Line(<<<<"[APPENDUID">>, <<"1">>, newuid \o <<"]">>, <<"(Success)">>>>)
SearchData ==
    {Line(<<>>), Line(<<<<"3">>>>), Line(<<<<"3">>, <<"4", "1">>>>)}
OKData(c) ==
    CASE c.name = "SELECT" -> {Line(<<<<"3">>>>)}
      [] c.name = "UID SEARCH" -> SearchData
      [] c.name = "APPEND" -> {AppendData(n) : n \in NewUids \ {uid}}
      [] c.name = "UID FETCH" -> {Line(<<>>), Line(<<<<"message">>>>)}
      [] c.name = "LIST" -> {Line(<<<<"INBOX">>>>), Line(<<<<"INBOX">>, <<"New">>>>)}
      [] OTHER -> {Line(<<<<"Success">>>>)}
Responses(c) ==
    IF connState = "LOGOUT"
    THEN {VResp("ABORT", Line(<<<<"connection closed">>>>))}
    ELSE {VResp("OK", d) : d \in OKData(c)}
         \cup {VResp(t, ErrData(c)) : t \in {"NO", "BAD"}}

\* what the server has selected after answering command c with response r
SelectedAfter(c, r) ==
    IF c.name = "SELECT"
    THEN IF r.typ = "OK" THEN c.mbox ELSE NoMailbox
    ELSE selected

\* the response to the outstanding command arrives: imaplib2 calls the
\* callback_func built by _cmd_cb (utilities.py:170-177), which schedules
\* the handler on the loop
Respond ==
    /\ inflight # <<>>
    /\ \E r \in Responses(Head(inflight).cmd) :
          /\ loop' = schedule_func(loop, [fn |-> Head(inflight).cb, wrap |-> FALSE], r)
          /\ resplog' = Append(resplog, r)
          /\ selected' = SelectedAfter(Head(inflight).cmd, r)
    /\ inflight' = Tail(inflight)
    /\ UNCHANGED <<acctVars, connState, last_viewed_mailbox, op, opMailbox,
                   cacheAtStart, opsStarted, was_deleted, cmdlog, results, raised,
                   select_callback, count_callback, num_tries, deleted_uid,
                   msgVars, libVars>>

\* the session goes to state LOGOUT while an operation is running
Disconnect ==
    /\ Running
    /\ connState = "OPEN"
    /\ connState' = "LOGOUT"
    /\ selected' = NoMailbox
    /\ UNCHANGED <<acctVars, last_viewed_mailbox, op, opMailbox, cacheAtStart,
                   opsStarted, was_deleted, loop, inflight, cmdlog, resplog, results,
                   raised, select_callback, count_callback, num_tries,
                   deleted_uid, msgVars, libVars>>

\* ------------------------------------------------------ public operations
CanStart == (op = "idle" \/ Finished) /\ opsStarted < MaxOps /\ connState = "OPEN"

BeginCall(o, m) ==
    /\ CanStart
    /\ op' = o
    /\ opMailbox' = m
    /\ cacheAtStart' = last_viewed_mailbox
    /\ opsStarted' = opsStarted + 1
    /\ was_deleted' = VNone
    /\ raised' = "none"

Begin(o, m) ==
    /\ BeginCall(o, m)
    /\ cmdlog' = <<>>
    /\ resplog' = <<>>
    /\ results' = <<>>

StartSelect ==
    \E m \in Mailboxes :
       /\ Begin("select", m)
       /\ MailboxSelect(<<>>, m, Caller)
       /\ UNCHANGED <<acctVars, connState, last_viewed_mailbox, selected,
                      inflight, num_tries, deleted_uid, msgVars, libVars>>

StartCount ==
    \E m \in Mailboxes :
       /\ Begin("count", m)
       /\ MailboxCount(<<>>, Caller)
       /\ UNCHANGED <<acctVars, connState, last_viewed_mailbox, selected,
                      inflight, select_callback, num_tries, deleted_uid,
                      msgVars, libVars>>

StartDelete ==
    /\ Begin("delete", MessageMailbox)
    /\ MessageDelete(<<>>)
    /\ UNCHANGED <<acctVars, connState, last_viewed_mailbox, selected,
                   inflight, num_tries, deleted_uid, msgVars, libVars>>

StartSave ==
    /\ Begin("save", MessageMailbox)
    /\ MessageSave(<<>>)
    /\ UNCHANGED <<acctVars, connState, last_viewed_mailbox, selected,
                   inflight, num_tries, deleted_uid, msgVars, libVars>>

\* a replace() that saves the message whether its parts decoded or not
StartReplaceAlwaysSaves ==
    /\ Begin("replace", MessageMailbox)
    /\ \E decodes \in BOOLEAN :
          /\ body' = IF decodes THEN "edited" ELSE body
          /\ MessageSave(<<>>)
    /\ UNCHANGED <<acctVars, connState, last_viewed_mailbox, selected,
                   inflight, num_tries, deleted_uid, uid, flags,
                   internal_date, labels_raw, fetched, now, libVars>>

\* message.py:826-883, the body of replace(): a text part that fails to
\* decode ends the operation with the encoding error, otherwise the parts
\* are rewritten and save() is called
StartReplace ==
    /\ Begin("replace", MessageMailbox)
    /\ \E decodes \in BOOLEAN :
          IF ~decodes
          THEN /\ loop' = _cmd(<<>>, Caller, EncodingError)
               /\ UNCHANGED <<body, select_callback, count_callback>>
          ELSE /\ body' = "edited"
               /\ MessageSave(<<>>)
    /\ UNCHANGED <<acctVars, connState, last_viewed_mailbox, selected,
                   inflight, num_tries, deleted_uid, uid, flags,
                   internal_date, labels_raw, fetched, now, libVars>>

\* ------------------------------------- GmailMailbox (blocking, src/mailbox.py)
\* src/mailbox.py:76-81 count(): the cache after SELECT answered r
gm_count_cache(m, r, cache) == IF r.typ = "OK" THEN m ELSE cache
\* src/mailbox.py:79-81 count(): the value returned
gm_count_result(r) == IF r.typ = "OK" THEN VInt ELSE VNone

GmailMailboxCount ==
    \E m \in Mailboxes : \E r \in Responses(CmdSelect(m)) :
       /\ BeginCall("gm_count", m)
       /\ cmdlog' = <<CmdSelect(m)>>
       /\ resplog' = <<r>>
       /\ selected' = SelectedAfter(CmdSelect(m), r)
       /\ last_viewed_mailbox' = gm_count_cache(m, r, last_viewed_mailbox)
       /\ results' = <<gm_count_result(r)>>
       /\ UNCHANGED <<acctVars, connState, loop, inflight, select_callback,
                      count_callback, num_tries, deleted_uid, msgVars, libVars>>

\* src/mailbox.py:97-98 select(): self.count(), then the cache is set
gm_select_cache(m, r, cache) ==
    LET afterCount == gm_count_cache(m, r, cache) IN m

\* src/mailbox.py:95-99
GmailMailboxSelect ==
    \E m \in Mailboxes : \E r \in Responses(CmdSelect(m)) :
       /\ BeginCall("gm_select", m)
       /\ IF m = last_viewed_mailbox
          THEN /\ results' = <<VFalse>>
               /\ cmdlog' = <<>>
               /\ resplog' = <<>>
               /\ UNCHANGED <<selected, last_viewed_mailbox>>
          ELSE /\ cmdlog' = <<CmdSelect(m)>>
               /\ resplog' = <<r>>
               /\ selected' = SelectedAfter(CmdSelect(m), r)
               /\ last_viewed_mailbox' = gm_select_cache(m, r, last_viewed_mailbox)
               /\ results' = <<VTrue>>
       /\ UNCHANGED <<acctVars, connState, loop, inflight, select_callback,
                      count_callback, num_tries, deleted_uid, msgVars, libVars>>

\* ---------------------------------------------------------- specification
Next ==
    \/ StartSelect
    \/ StartCount
    \/ StartDelete
    \/ StartSave
    \/ StartReplace
    \/ GmailMailboxCount
    \/ GmailMailboxSelect
    \/ Respond
    \/ Disconnect
    \/ callback_func
    \/ caller
    \/ count_on_connection
    \/ count_on_select_complete
    \/ on_count_complete
    \/ on_mailbox_select
    \/ on_received_connection
    \/ on_message_moved
    \/ on_received_connection_2
    \/ on_trash_selected
    \/ on_received_connection_3
    \/ on_search_for_message_complete
    \/ on_received_connection_4
    \/ on_delete_complete
    \/ on_recevieved_connection_5
    \/ on_expunge_complete
    \/ on_recevieved_connection_6
    \/ on_original_mailbox_reselected
    \/ on_delete
    \/ on_select
    \/ save_on_received_connection
    \/ on_append
    \/ on_post_append_connection
    \/ on_post_labeling
    \/ on_save

Spec == Init /\ [][Next]_vars

\* ================================================================ claims
CountCmd(name) == Cardinality({i \in 1..Len(cmdlog) : cmdlog[i].name = name})
MessageOp == op \in {"delete", "save", "replace"}
NoUidFound == VResp("OK", Line(<<>>))
SearchAnswers == {i \in 1..Len(resplog) : cmdlog[i].name = "UID SEARCH"}

\* C1: in Message.delete, when every SEARCH of the trash mailbox returns OK
\* with no UID (and the session stays open), no exception is raised, and the
\* operation ends after exactly 5 SEARCH commands with the result False.
C1_DeleteRetryBound ==
    (/\ op = "delete"
     /\ connState = "OPEN"
     /\ SearchAnswers # {}
     /\ \A i \in SearchAnswers : resplog[i] = NoUidFound)
    => /\ raised = "none"
       /\ CountCmd("UID SEARCH") <= MaxTries
       /\ Finished => (CountCmd("UID SEARCH") = MaxTries /\ results = <<VFalse>>)

\* C2: in Message.delete, once a command of the protocol was answered with a
\* non-OK status, no later command is issued and the final result is the
\* IMAPError that carries the status and data of that response.
C2_DeleteShortCircuit ==
    op = "delete" =>
       \A i \in 1..Len(resplog) :
          resplog[i].typ \in {"NO", "BAD"} =>
             /\ Len(cmdlog) = i
             /\ Finished => results = <<IMAPError(resplog[i].data, resplog[i].typ)>>

C4_CacheMatchesServer ==
    (/\ Finished
     /\ raised = "none"
     /\ connState = "OPEN"
     /\ last_viewed_mailbox # NoMailbox
     /\ selected # NoMailbox)
    => selected = last_viewed_mailbox

\* C5: select() on the cached mailbox issues no command, leaves the cache
\* unchanged and yields False; on any other mailbox it issues exactly one
\* SELECT command (for that mailbox) while the session is open.
C5_SelectElision ==
    op \in {"select", "gm_select"} =>
       IF opMailbox = cacheAtStart
       THEN /\ cmdlog = <<>>
            /\ last_viewed_mailbox = cacheAtStart
            /\ results \in {<<>>, <<VFalse>>}
            /\ Finished => results = <<VFalse>>
       ELSE /\ CountCmd("SELECT") <= 1
            /\ \A i \in 1..Len(cmdlog) : cmdlog[i] = CmdSelect(opMailbox)
            /\ (Finished /\ raised = "none") => CountCmd("SELECT") = 1

C5_Witness ==
    /\ op = "select"
    /\ opsStarted = 2
    /\ Finished
    /\ opMailbox = cacheAtStart
    /\ results = <<VFalse>>
    /\ cmdlog = <<>>

\* C6: a select() whose SELECT command is answered with a non-OK status
\* leaves account.last_viewed_mailbox as it was and does not yield True.
C6_SelectFailureKeepsCache ==
    (/\ op \in {"select", "gm_select"}
     /\ \E i \in 1..Len(resplog) : resplog[i].typ \in {"NO", "BAD"})
    => /\ last_viewed_mailbox = cacheAtStart
       /\ \A i \in 1..Len(results) : results[i] # VTrue

\* C7: a delete, save or replace that has run to completion on an open
\* session has delivered exactly one result to the caller's callback.
C7_ExactlyOneResult ==
    (MessageOp /\ Finished /\ connState = "OPEN") => Len(results) = 1

\* C8: during a delete, save or replace at most one command is outstanding,
\* and a command is issued only when every earlier command was answered and
\* no result was delivered yet.
C8_OneCommandInFlight ==
    MessageOp =>
       /\ Len(inflight) <= 1
       /\ Len(cmdlog) = Len(resplog) + Len(inflight)
       /\ inflight # <<>> => (loop = <<>> /\ results = <<>>)

C8_Witness ==
    /\ op = "save"
    /\ Len(inflight) = 1
    /\ Head(inflight).cmd.name = "APPEND"
    /\ Len(resplog) >= 6

\* the items of a parenthesized, space separated list "(a b c)"
ListInner(s) == SubSeq(s, 2, Len(s) - 1)
ListItems(s) == [i \in 1..((Len(ListInner(s)) + 1) \div 2) |-> ListInner(s)[2 * i - 1]]
IsParenList(s) ==
    /\ Len(s) >= 2
    /\ s[1] = "("
    /\ s[Len(s)] = ")"
    /\ \A i \in 1..Len(ListInner(s)) :
          IF i % 2 = 0 THEN ListInner(s)[i] = " "
          ELSE ListInner(s)[i] \notin {" ", "(", ")"}
    /\ Len(ListInner(s)) % 2 = 1 \/ ListInner(s) = <<>>

C10_LabelStoreOnNewUid ==
    /\ \A i \in 1..Len(cmdlog) :
          cmdlog[i].item = "+X-GM-LABELS" =>
             /\ i > 1
             /\ cmdlog[i - 1].name = "APPEND"
             /\ resplog[i - 1] = VResp("OK", AppendData(cmdlog[i].uid))
             /\ \A j \in 1..Len(cmdlog) :
                   cmdlog[j].name = "UID COPY" => cmdlog[j].uid # cmdlog[i].uid
             /\ cmdlog[i].value = <<"(", fetched.labels_raw, ")">>
    /\ (op = "save" /\ results # <<>> /\ results[1] = VTrue) =>
          /\ Len(resplog) = Len(cmdlog)
          /\ cmdlog[Len(cmdlog)].item = "+X-GM-LABELS"
          /\ resplog[Len(resplog)].typ = "OK"

C10_Witness ==
    /\ op = "save"
    /\ results = <<VTrue>>
    /\ uid = <<"1", "2">>
    /\ fetched.labels_raw # ""

\* ---------------------------------------------------------------- C11
\* the save ran to its end: the label STORE, its last command, was answered OK
SaveSucceeded ==
    /\ op = "save" /\ Finished /\ raised = "none"
    /\ cmdlog # <<>> /\ Len(resplog) = Len(cmdlog)
    /\ cmdlog[Len(cmdlog)].item = "+X-GM-LABELS"
    /\ resplog[Len(resplog)].typ = "OK"
\* the value v holds the UID u somewhere in its data
Carries(v, u) ==
    \E i \in 1..Len(v.data) : \E j \in 1..Len(v.data[i]) : v.data[i][j] = u

\* C11 as stated: when Message.save succeeds, the result reported to the
\* caller carries the newly assigned UID of the re-created message.
C11_SaveReportsNewUid ==
    SaveSucceeded => (Len(results) = 1 /\ Carries(results[1], uid))

\* C11 amended: when Message.save succeeds, the one result reported to the
\* caller is True; the newly assigned UID (taken from the APPEND response) is
\* left in the message's uid field and is not part of the result.
C11_SaveReportsTrue ==
    SaveSucceeded =>
        /\ results = <<VTrue>>
        /\ ~Carries(results[1], uid)
        /\ uid # fetched.uid
        /\ \E i \in 1..Len(cmdlog) :
              /\ cmdlog[i].name = "APPEND"
              /\ resplog[i] = VResp("OK", AppendData(uid))

C11_Witness ==
    SaveSucceeded /\ results = <<VTrue>> /\ uid = <<"1", "2">> /\ opsStarted = 1

\* ====================================================== library functions
\* each function below is applied once to arguments drawn in the initial
\* state; ret holds what it returned, or the exception it raised
Return(v) == [raised |-> "none", value |-> v]
Raise(e) == [raised |-> e, value |-> <<>>]
Apply(name, result) ==
    /\ call = "none"
    /\ call' = name
    /\ ret' = result
    /\ UNCHANGED <<args, progVars, poolVars>>

\* ---------------------------------------------------------- page_from_list
MaxLen == 3
MaxLimit == 4
MaxOffset == 4
Ids == {"1", "2"}
Lists == UNION {[1..n -> Ids] : n \in 0..MaxLen}
\* a limit is an int, False (which Python adds as 0) or None
LimitInt(n) == [kind |-> "int", n |-> n]
LimitFalse == [kind |-> "False", n |-> 0]
LimitNone == [kind |-> "None", n |-> 0]
Limits == {LimitInt(n) : n \in 0..MaxLimit} \cup {LimitFalse, LimitNone}

\* a_list[first:last] for 0 <= first and 0 <= last <= len(a_list)
Slice(a_list, first, last) == SubSeq(a_list, first + 1, last)

\* page_from_list that starts one element late
page_from_list_late(a_list, limit, offset) ==
    LET count == Len(a_list) IN
    IF count <= offset THEN Return(<<>>)
    ELSE IF limit.kind = "False" THEN Return(Slice(a_list, offset + 1, count))
    ELSE IF limit.kind = "None" THEN Raise("TypeError")
    ELSE LET last_req_item == offset + limit.n
             last_elm_index == IF last_req_item >= count THEN count
                               ELSE last_req_item
         IN Return(Slice(a_list, offset + 1, last_elm_index))

\* pygmail/mailbox.py:137-168; offset + None raises TypeError
page_from_list(a_list, limit, offset) ==
    LET count == Len(a_list) IN
    IF count <= offset THEN Return(<<>>)
    ELSE IF limit.kind = "False" THEN Return(Slice(a_list, offset, count))
    ELSE IF limit.kind = "None" THEN Raise("TypeError")
    ELSE LET last_req_item == offset + limit.n
             last_elm_index == IF last_req_item >= count THEN count
                               ELSE last_req_item
         IN Return(Slice(a_list, offset, last_elm_index))

\* mailbox.py:6-32, the blocking module's function: no test for False
gm_page_from_list(a_list, limit, offset) ==
    LET count == Len(a_list) IN
    IF count <= offset THEN Return(<<>>)
    ELSE IF limit.kind = "None" THEN Raise("TypeError")
    ELSE LET last_req_item == offset + limit.n
             last_elm_index == IF last_req_item >= count THEN count
                               ELSE last_req_item
         IN Return(Slice(a_list, offset, last_elm_index))

PageArgs == [a_list : Lists, limit : Limits, offset : 0..MaxOffset]
InitPage == ProgIdle /\ call = "none" /\ args \in PageArgs /\ ret = NoRet

PageFromList ==
    Apply("page_from_list", page_from_list(args.a_list, args.limit, args.offset))
GmPageFromList ==
    Apply("gm_page_from_list",
          gm_page_from_list(args.a_list, args.limit, args.offset))

\* pygmail/mailbox.py:479-488 Mailbox.messages._on_search on an OK response
\* whose data[0] splits into a_list: the ids handed to messages_by_id
messages_on_search ==
    Apply("messages", page_from_list(args.a_list, args.limit, args.offset))

NextPage ==
    \/ PageFromList
    \/ GmPageFromList
    \/ messages_on_search

SpecPage == InitPage /\ [][NextPage]_vars

\* ---------------------------------------------------------------- C12
Min(a, b) == IF a <= b THEN a ELSE b
\* the items of a_list at positions lo (counted from 0) up to hi, in order
ItemsFrom(a_list, lo, hi) ==
    IF lo >= hi THEN <<>> ELSE [i \in 1..(hi - lo) |-> a_list[lo + i]]

C13_MessagesNoLimit ==
    (call = "messages" /\ args.limit = LimitNone)
        => ret = Return(ItemsFrom(args.a_list, args.offset, Len(args.a_list)))

\* ------------------------------------------------- MessageBase.__eq__
\* message objects that differ in UID, mailbox name and in other fields,
\* and one object that is not a message
EqUids == {<<"7">>, <<"8">>}
MessageObjects ==
    [kind : {"MessageBase"}, uid : EqUids, mailbox : Mailboxes,
     flags : {<<>>, <<"\\Seen">>}]
OtherObject == [kind |-> "str", uid |-> <<"7">>, mailbox |-> "INBOX", flags |-> <<>>]
Objects == MessageObjects \cup {OtherObject}

\* __eq__ that compares the UID only
eq_uid_only(self, other) ==
    other.kind = "MessageBase" /\ self.uid = other.uid

\* message.py:201-205
__eq__(self, other) ==
    /\ other.kind = "MessageBase"
    /\ self.uid = other.uid
    /\ self.mailbox = other.mailbox

\* x == y in Python: MessageBase.__eq__ when x is a message; for another
\* object compared with a message, the default comparison by identity
PyEq(x, y) == IF x.kind = "MessageBase" THEN __eq__(x, y) ELSE FALSE

\* message.py:80-102
message_in_list(message, message_list) ==
    \E i \in 1..Len(message_list) : PyEq(message, message_list[i])

EqArgs == [a : MessageObjects, b : Objects, c : Objects]
InitEq == ProgIdle /\ call = "none" /\ args \in EqArgs /\ ret = NoRet

\* the comparisons a == b, b == a, b == c, a == c, a == a
MessageEq ==
    Apply("__eq__", Return(<<PyEq(args.a, args.b), PyEq(args.b, args.a),
                             PyEq(args.b, args.c), PyEq(args.a, args.c),
                             PyEq(args.a, args.a)>>))
MessageInList ==
    Apply("message_in_list", Return(<<message_in_list(args.a, <<args.b, args.c>>)>>))

NextEq ==
    \/ MessageEq
    \/ MessageInList

SpecEq == InitEq /\ [][NextEq]_vars

\* ---------------------------------------------------------------- C14
SameEnvelope(x, y) ==
    /\ x.kind = "MessageBase" /\ y.kind = "MessageBase"
    /\ x.uid = y.uid /\ x.mailbox = y.mailbox

\* C14: two message envelopes compare equal exactly when both are message
\* objects with the same UID and the same mailbox name, whatever their other
\* fields are; the relation is reflexive, symmetric and transitive.
C14_EnvelopeEquality ==
    /\ call = "__eq__" =>
        /\ ret.value[1] = SameEnvelope(args.a, args.b)
        /\ ret.value[4] = SameEnvelope(args.a, args.c)
        /\ ret.value[5]
        /\ ret.value[1] = ret.value[2]
        /\ (ret.value[1] /\ ret.value[3]) => ret.value[4]
    /\ call = "message_in_list" =>
        ret.value[1] = (SameEnvelope(args.a, args.b) \/ SameEnvelope(args.a, args.c))

C14_Witness ==
    /\ call = "__eq__"
    /\ args.a.flags # args.b.flags
    /\ args.b.kind = "MessageBase" /\ args.c.kind = "MessageBase"
    /\ ret.value = <<TRUE, TRUE, TRUE, TRUE, TRUE>>

\* ------------------------------------------------- the IMAP response parser
\* a string is a sequence of one-character strings; None is what ahead
\* gives at the end of the input
None == ""
\* string[index], with Python's negative indices; None on IndexError
CharAt(s, i) ==
    IF 0 <= i /\ i < Len(s) THEN s[i + 1]
    ELSE IF i < 0 /\ -Len(s) <= i THEN s[Len(s) + i + 1]
    ELSE None
\* utilities.py:244-250 LookAheadStringIter.ahead
ahead(s, i) == CharAt(s, i)

\* string[a:b]
PyBound(s, k) ==
    IF k < 0 THEN (IF k + Len(s) < 0 THEN 0 ELSE k + Len(s))
    ELSE IF k > Len(s) THEN Len(s) ELSE k
PySlice(s, a, b) == SubSeq(s, PyBound(s, a) + 1, PyBound(s, b))

\* utilities.py:197 ATOM_CHARS: chr(32)..chr(255) but ( ) { % * " \ space ]
NotAtomChars == {"(", ")", "{", "%", "*", "\"", "\\", " ", "]"}
ControlChars == {"\r", "\n", "\t"}
InAtomChars(c) == c # None /\ c \notin NotAtomChars /\ c \notin ControlChars

\* the values the parser yields, each written as a sequence of strings: the
\* type's name, the characters or the elements, and a closing mark; a list
\* of tokens is the concatenation of its tokens
Atom(v) == <<"Atom">> \o v \o <<"/Atom">>
Str(v) == <<"str">> \o v \o <<"/str">>
Flag(v) == <<"Flag">> \o v \o <<"/Flag">>
List(items) == <<"list">> \o items \o <<"/list">>
NoneValue == <<"None">>
AttributeSpec(primary, msgtext, header_list, range) ==
    <<"AttributeSpec">> \o primary \o <<"msgtext">> \o msgtext
        \o <<"header_list">> \o header_list \o <<"range">> \o range
        \o <<"/AttributeSpec">>
\* the .value of an Atom
AtomValue(tok) == SubSeq(tok, 2, Len(tok) - 1)

\* what a read_* function leaves: the cursor, and a value or an exception
Ok(i, v) == [err |-> "none", index |-> i, value |-> v]
Fail(e, i) == [err |-> e, index |-> i, value |-> <<>>]

\* a loop that takes a backslash before a quote only as an escape
RECURSIVE read_quoted_loop_quote_only(_, _, _)
read_quoted_loop_quote_only(s, i, result) ==
    LET c == CharAt(s, i) IN
    IF c = None THEN Fail("ParseError", i)
    ELSE IF c = "\"" THEN Ok(i + 1, Str(result))
    ELSE IF c = "\\" /\ ahead(s, i + 1) = "\""
         THEN read_quoted_loop_quote_only(s, i + 2, Append(result, CharAt(s, i + 1)))
         ELSE read_quoted_loop_quote_only(s, i + 1, Append(result, c))
\* utilities.py:387-407 read_quoted: the loop after the opening quote
RECURSIVE read_quoted_loop(_, _, _)
read_quoted_loop(s, i, result) ==
    LET c == CharAt(s, i) IN
    IF c = None THEN Fail("ParseError", i)
    ELSE IF c = "\"" THEN Ok(i + 1, Str(result))
    ELSE IF c = "\\" /\ ahead(s, i + 1) \in {"\"", "\\"}
         THEN read_quoted_loop(s, i + 2, Append(result, CharAt(s, i + 1)))
         ELSE read_quoted_loop(s, i + 1, Append(result, c))
read_quoted(s, i) == read_quoted_loop(s, i + 1, <<>>)

\* int(count): surrounding whitespace and a sign are accepted
Whitespace == {" ", "\r", "\n", "\t"}
Digits == <<"0", "1", "2", "3", "4", "5", "6", "7", "8", "9">>
IsDigit(c) == \E d \in 1..10 : Digits[d] = c
DigitVal(c) == (CHOOSE d \in 1..10 : Digits[d] = c) - 1
RECURSIVE LStrip(_)
LStrip(cs) == IF cs # <<>> /\ Head(cs) \in Whitespace THEN LStrip(Tail(cs)) ELSE cs
RECURSIVE RStrip(_)
RStrip(cs) ==
    IF cs # <<>> /\ cs[Len(cs)] \in Whitespace
    THEN RStrip(SubSeq(cs, 1, Len(cs) - 1)) ELSE cs
Unsigned(cs) ==
    LET t == RStrip(LStrip(cs)) IN
    IF t # <<>> /\ Head(t) \in {"-", "+"} THEN Tail(t) ELSE t
IsInt(cs) ==
    LET u == Unsigned(cs) IN u # <<>> /\ \A k \in 1..Len(u) : IsDigit(u[k])
RECURSIVE DecVal(_)
DecVal(u) ==
    IF u = <<>> THEN 0
    ELSE 10 * DecVal(SubSeq(u, 1, Len(u) - 1)) + DigitVal(u[Len(u)])
int(cs) ==
    LET t == RStrip(LStrip(cs)) IN
    IF Head(t) = "-" THEN 0 - DecVal(Unsigned(cs)) ELSE DecVal(Unsigned(cs))

\* utilities.py:420-424: the characters up to the closing brace
RECURSIVE read_count(_, _, _)
read_count(s, i, count) ==
    LET c == CharAt(s, i) IN
    IF c = None THEN [index |-> i, count |-> count]
    ELSE IF c = "}" THEN [index |-> i + 1, count |-> count]
    ELSE read_count(s, i + 1, Append(count, c))

\* utilities.py:410-441
read_literal(s, i) ==
    LET h == read_count(s, i + 1, <<>>)
        j == h.index
    IN
    IF ahead(s, j) = None THEN Fail("ParseError", j)
    ELSE IF CharAt(s, j) # "\r" THEN Fail("ParseError", j + 1)
    ELSE IF ahead(s, j + 1) = None THEN Fail("ParseError", j + 1)
    ELSE IF CharAt(s, j + 1) # "\n" THEN Fail("ParseError", j + 2)
    ELSE IF ~IsInt(h.count) THEN Fail("ParseError", j + 2)
    ELSE LET count == int(h.count)
             result == PySlice(s, j + 2, j + 2 + count)
         IN IF Len(result) < count THEN Fail("ParseError", j + 2 + count)
            ELSE Ok(j + 2 + count, Str(result))

RECURSIVE parse_recursive(_, _, _)
RECURSIVE read_atom(_, _)

\* utilities.py:455-458: r is what reading the list's elements gave; the
\* list ends at ")"
read_list_close(s, r) ==
    IF r.err # "none" THEN r
    ELSE IF ahead(s, r.index) = None THEN Fail("ParseError", r.index)
    ELSE IF CharAt(s, r.index) # ")" THEN Fail("ParseError", r.index + 1)
    ELSE Ok(r.index + 1, List(r.value))

\* utilities.py:444-458; data.next() at the end of the input raises
\* StopIteration, and a first character other than "(" fails the assert
read_list(s, i) ==
    IF CharAt(s, i) = None THEN Fail("StopIteration", i)
    ELSE IF CharAt(s, i) # "(" THEN Fail("AssertionError", i + 1)
    ELSE read_list_close(s, parse_recursive(s, i + 1, <<>>))

\* utilities.py:494-501: the while loop of read_atom; bracket tells whether
\* it ended on the break at "["
RECURSIVE atom_loop(_, _, _)
atom_loop(s, i, result) ==
    IF ~InAtomChars(ahead(s, i))
    THEN [index |-> i, result |-> result, bracket |-> FALSE]
    ELSE IF CharAt(s, i) = "["
    THEN [index |-> i + 1, result |-> result, bracket |-> TRUE]
    ELSE atom_loop(s, i + 1, Append(result, CharAt(s, i)))

\* utilities.py:519: the AttributeSpec, once the range is read
read_atom_range(name, msgtext, header_list, range) ==
    IF range.err # "none" THEN range
    ELSE Ok(range.index, AttributeSpec(name, msgtext.value,
                                       header_list.value, range.value))

\* utilities.py:512-518: the closing "]", then a range after "<"
read_atom_close(s, name, msgtext, header_list) ==
    IF header_list.err # "none" THEN header_list
    ELSE IF ahead(s, header_list.index) # "]"
    THEN Fail("ParseError", header_list.index)
    ELSE read_atom_range(name, msgtext, header_list,
                         IF ahead(s, header_list.index + 1) = "<"
                         THEN read_atom(s, header_list.index + 1)
                         ELSE Ok(header_list.index + 1, NoneValue))

\* utilities.py:507-511: a header list after the section's text and " "
read_atom_headers(s, name, msgtext) ==
    IF msgtext.err # "none" THEN msgtext
    ELSE read_atom_close(s, name, msgtext,
                         IF ahead(s, msgtext.index) = " "
                         THEN read_list(s, msgtext.index + 1)
                         ELSE Ok(msgtext.index, NoneValue))

\* utilities.py:501-506: a is what the while loop gave; after "[" comes
\* the section's text, unless "]" follows at once
read_atom_section(s, a) ==
    IF ~a.bracket THEN Ok(a.index, Atom(a.result))
    ELSE read_atom_headers(s, a.result,
                           IF ahead(s, a.index) = "]"
                           THEN Ok(a.index, Str(<<>>))
                           ELSE read_atom(s, a.index))

\* utilities.py:461-519
read_atom(s, i) ==
    IF ~InAtomChars(ahead(s, i)) THEN Fail("AssertionError", i)
    ELSE read_atom_section(s, atom_loop(s, i, <<>>))

\* utilities.py:530: Flag(atom.value); an AttributeSpec has no
\* .value: AttributeError
flag_of(r) ==
    IF r.err # "none" THEN r
    ELSE IF r.value[1] # "Atom" THEN Fail("AttributeError", r.index)
    ELSE Ok(r.index, Flag(AtomValue(r.value)))

\* the atom after the backslash, left as an atom
atom_of(r) ==
    IF r.err # "none" THEN r
    ELSE IF r.value[1] # "Atom" THEN Fail("AttributeError", r.index)
    ELSE Ok(r.index, Atom(AtomValue(r.value)))

\* read_flag that yields a plain atom
read_flag_as_atom(s, i) == atom_of(read_atom(s, i + 1))

\* utilities.py:522-530
read_flag(s, i) == flag_of(read_atom(s, i + 1))

IsTokenStart(c) == c \in {"\"", "{", "(", "\\"} \/ InAtomChars(c)

\* utilities.py:542-552: the reader chosen by the character ahead
read_token(s, i, c) ==
    IF c = "\"" THEN read_quoted(s, i)
    ELSE IF c = "{" THEN read_literal(s, i)
    ELSE IF c = "(" THEN read_list(s, i)
    ELSE IF c = "\\" THEN read_flag(s, i)
    ELSE IF InAtomChars(c) THEN read_atom(s, i)
    ELSE Ok(i, NoneValue)

\* utilities.py:543-562: r is what the reader gave for the character c;
\* its value is yielded, then the separator decides
parse_next(s, c, acc, r) ==
    IF r.err = "StopIteration" THEN Ok(r.index, acc)
    ELSE IF r.err # "none" THEN r
    ELSE
    LET yielded == IF IsTokenStart(c) THEN acc \o r.value ELSE acc
        c2 == ahead(s, r.index)
    IN
    IF c2 = " " THEN parse_recursive(s, r.index + 1, yielded)
    ELSE IF c2 \in {")", None} THEN Ok(r.index, yielded)
    ELSE IF c2 = "(" THEN parse_recursive(s, r.index, yielded)
    ELSE Fail("ParseError", r.index)

\* utilities.py:533-562, a generator: acc holds what it has yielded. A
\* StopIteration raised inside a read_* function ends the generator, so
\* its consumer sees the values yielded so far and no exception
parse_recursive(s, i, acc) ==
    parse_next(s, ahead(s, i), acc, read_token(s, i, ahead(s, i)))

\* what a call hands back: the value, or the exception; a ParseError
\* carries data.index and data.string
Outcome(s, r) ==
    IF r.err = "none"
    THEN [raised |-> "none", value |-> r.value, index |-> r.index, string |-> s]
    ELSE [raised |-> r.err, value |-> <<>>, index |-> r.index, string |-> s]

\* utilities.py:595-598: r is the list of what parse_recursive yielded
parse_end(s, r) ==
    IF r.err # "none" THEN Outcome(s, r)
    ELSE IF ahead(s, r.index) # None THEN Outcome(s, Fail("ParseError", r.index))
    ELSE Outcome(s, r)

\* utilities.py:565-598
parse(s) == parse_end(s, parse_recursive(s, 0, <<>>))

\* ---- inputs of the parser
MaxDepth == 3
MaxPayload == 3
\* a token together with its text: atoms bare, flags after a backslash,
\* strings quoted with " and \ escaped
RECURSIVE Escape(_)
Escape(cs) ==
    IF cs = <<>> THEN <<>>
    ELSE (IF Head(cs) \in {"\"", "\\"} THEN <<"\\", Head(cs)>> ELSE <<Head(cs)>>)
         \o Escape(Tail(cs))
AtomText(v) == [tok |-> Atom(v), text |-> v]
FlagText(v) == [tok |-> Flag(v), text |-> <<"\\">> \o v]
StrText(v) == [tok |-> Str(v), text |-> <<"\"">> \o Escape(v) \o <<"\"">>]
\* lists in parentheses, single spaces between the elements
List0 == [tok |-> List(<<>>), text |-> <<"(", ")">>]
List1(x) == [tok |-> List(x.tok), text |-> <<"(">> \o x.text \o <<")">>]
List2(x, y) ==
    [tok |-> List(x.tok \o y.tok),
     text |-> <<"(">> \o x.text \o <<" ">> \o y.text \o <<")">>]

Leaves == {AtomText(<<"N", "I", "L">>), AtomText(<<"1", "2">>),
           StrText(<<"a", " ", "\"">>), FlagText(<<"S">>)}
\* parenthesized lists nested up to depth d
RECURSIVE Trees(_)
Trees(d) ==
    LET flat == {List0} \cup {List1(x) : x \in Leaves}
                \cup {List2(x, y) : x \in Leaves, y \in Leaves}
    IN IF d <= 1 THEN flat
       ELSE LET inner == Trees(d - 1) IN
            flat \cup {List1(t) : t \in inner}
                 \cup {List2(x, t) : x \in Leaves, t \in inner}
                 \cup {List2(t, x) : x \in Leaves, t \in inner}

ListInputs ==
    {[kind |-> "list", data |-> t.text, tree |-> t.tok, count |-> <<>>,
      payload |-> <<>>] : t \in Trees(MaxDepth)}

\* inputs that are not well-formed, by the construct that is broken
Contexts == {<<>>, <<"(">>, <<"(", "a", " ">>}
Unterminated ==
    {<<"\"", "a", "b">>, <<"\"", "a", "\\", "\"">>,
     <<"{", "2", "}", "\r", "\n", "a">>, <<"{", "2">>, <<"{", "2", "}">>,
     <<"{", "x", "}", "\r", "\n", "a", "b">>,
     <<"(", "a">>, <<"(", "a", " ", "(", "b", ")">>}
UnmatchedClose == {<<")">>, <<"a", ")">>, <<"(", "a", ")", ")">>}
BadBackslash ==
    {<<"\\">>, <<"\\", " ", "a">>, <<"\\", ")">>, <<"\\", "\"", "a", "\"">>}
OpenSection ==
    {<<"B", "[">>, <<"B", "[", "H">>, <<"B", "[", "H", " ">>,
     <<"B", "[", "H", " ", "(", "F", ")">>, <<"B", "[", "H", " ", "(", "F">>}
BadChar == {<<"%">>, <<"*">>, <<"]">>, <<"a", " ", "%">>, <<"\t">>, <<"a", "\"", "b", "\"">>}
Malformed ==
    UnmatchedClose \cup
    {c \o b : c \in Contexts,
              b \in Unterminated \cup BadBackslash \cup OpenSection \cup BadChar}
MalformedInputs ==
    {[kind |-> "malformed", data |-> d, tree |-> NoneValue, count |-> <<>>,
      payload |-> <<>>] : d \in Malformed}

\* literals: a declared count, CRLF, then characters of every sort
CountChars == {"1", "2", "x", "-"}
Counts == {<<c>> : c \in CountChars} \cup {<<c, d>> : c \in CountChars, d \in CountChars}
PayloadChars == {" ", "(", "\"", "\\", "a"}
Payloads == UNION {[1..n -> PayloadChars] : n \in 0..MaxPayload}
LiteralInputs ==
    {[kind |-> "literal", data |-> <<"{">> \o c \o <<"}", "\r", "\n">> \o pl,
      tree |-> NoneValue, count |-> c, payload |-> pl] :
        c \in Counts, pl \in Payloads}

\* a literal at the top level of a response, after nothing, a space or an
\* atom and a space; counts signed and unsigned; no parenthesis
MaxSteps == 12
StreamPrefixes == {<<>>, <<" ">>, <<"a", " ">>}
StreamCounts == {<<"0">>, <<"1">>, <<"-", "1">>, <<"-", "7">>, <<"-", "8">>, <<"-", "9">>}
StreamPayloads == {<<>>, <<"a">>, <<"a", " ", "b">>}
StreamInputs ==
    {[kind |-> "stream", data |-> p \o <<"{">> \o c \o <<"}", "\r", "\n">> \o pl,
      tree |-> NoneValue, count |-> c, payload |-> pl] :
        p \in StreamPrefixes, c \in StreamCounts, pl \in StreamPayloads}

\* the generator between two passes of its loop, and what parse() has
\* returned or raised; steps counts the passes made
Looping(s, i, acc, n) ==
    [raised |-> "running", value |-> acc, index |-> i, string |-> s, steps |-> n]
Ended(s, r, n) ==
    [raised |-> parse_end(s, r).raised, value |-> parse_end(s, r).value,
     index |-> r.index, string |-> s, steps |-> n]

\* utilities.py:540-562, one pass of the while loop of parse_recursive at
\* the top level: r is what the reader gave for the character c; when the
\* loop ends, utilities.py:596-598 follow
parse_pass(s, c, acc, r, n) ==
    IF r.err = "StopIteration" THEN Ended(s, Ok(r.index, acc), n)
    ELSE IF r.err # "none" THEN Ended(s, r, n)
    ELSE
    LET yielded == IF IsTokenStart(c) THEN acc \o r.value ELSE acc
        c2 == ahead(s, r.index)
    IN
    IF c2 = " " THEN Looping(s, r.index + 1, yielded, n)
    ELSE IF c2 \in {")", None} THEN Ended(s, Ok(r.index, yielded), n)
    ELSE IF c2 = "(" THEN Looping(s, r.index, yielded, n)
    ELSE Ended(s, Fail("ParseError", r.index), n)

\* utilities.py:595, parse() creates the cursor and starts the generator
ParseStart ==
    /\ args.kind = "stream"
    /\ Apply("parse", Looping(args.data, 0, <<>>, 0))

\* utilities.py:540-562, the generator makes one more pass
ParsePass ==
    /\ call = "parse"
    /\ args.kind = "stream"
    /\ ret.raised = "running"
    /\ ret.steps < MaxSteps
    /\ ret' = parse_pass(ret.string, ahead(ret.string, ret.index), ret.value,
                         read_token(ret.string, ret.index, ahead(ret.string, ret.index)),
                         ret.steps + 1)
    /\ UNCHANGED <<call, args, progVars, poolVars>>

\* quoted strings: an opening quote, then quotes, backslashes and letters
MaxQuoted == 5
QuotedChars == {"\"", "\\", "a"}
QuotedInputs ==
    {[kind |-> "quoted", data |-> <<"\"">> \o b, tree |-> NoneValue,
      count |-> <<>>, payload |-> b] :
        b \in UNION {[1..n -> QuotedChars] : n \in 0..MaxQuoted}}

InitParse ==
    /\ ProgIdle
    /\ call = "none"
    /\ args \in ListInputs \cup MalformedInputs \cup LiteralInputs \cup StreamInputs \cup QuotedInputs
    /\ ret = NoRet

Parse ==
    /\ args.kind \in {"list", "malformed"}
    /\ Apply("parse", parse(args.data))
ReadLiteral ==
    /\ args.kind = "literal"
    /\ Apply("read_literal", Outcome(args.data, read_literal(args.data, 0)))

ReadQuoted ==
    /\ args.kind = "quoted"
    /\ Apply("read_quoted", Outcome(args.data, read_quoted(args.data, 0)))

NextParse ==
    \/ Parse
    \/ ReadLiteral
    \/ ParseStart
    \/ ParsePass
    \/ ReadQuoted

SpecParse == InitParse /\ [][NextParse]_vars

\* ---------------------------------------------------------------- C15
\* C15: parse applied to a parenthesized list returns one list token whose
\* elements are the parsed tokens of the list in order, inner lists nested to
\* any depth (an atom stays an Atom, a quoted string a string, a
\* backslash-prefixed atom a Flag); no NIL or numeric interpretation.
C15_ParseList ==
    (call = "parse" /\ args.kind = "list")
        => ret.raised = "none" /\ ret.value = args.tree

C15_Witness ==
    /\ call = "parse"
    /\ args.data = <<"(", "N", "I", "L", " ", "(", "(", "\\", "S", " ",
                     "\"", "a", " ", "\\", "\"", "\"", ")", " ", "1", "2", ")", ")">>
    /\ ret.value = List(Atom(<<"N", "I", "L">>)
                        \o List(List(Flag(<<"S">>) \o Str(<<"a", " ", "\"">>))
                                \o Atom(<<"1", "2">>)))

\* ---------------------------------------------------------------- C16
\* C16: for every input that is not a well-formed token sequence (an
\* unterminated quoted string, literal or list; an unmatched closing
\* parenthesis; a backslash not followed by an atom; an attribute section
\* that is never closed; a character outside the recognized set), parse
\* raises ParseError carrying the cursor position and the full input, and
\* no other kind of exception.
C16_MalformedRaisesParseError ==
    (call = "parse" /\ args.kind = "malformed")
        => /\ ret.raised = "ParseError"
           /\ ret.index \in 0..Len(args.data)
           /\ ret.string = args.data

\* ---------------------------------------------------------------- C17
IsDecimal(cs) == cs # <<>> /\ \A k \in 1..Len(cs) : IsDigit(cs[k])

\* C17: read_literal consumes exactly the declared count of characters
\* after the CRLF, whatever they are, returns them unchanged and leaves the
\* cursor right after them; it raises ParseError when fewer than count
\* characters remain or the count is not a decimal number.
C17_ReadLiteralExact ==
    call = "read_literal" =>
        LET start == Len(args.count) + 4 IN
        IF IsDecimal(args.count) /\ DecVal(args.count) <= Len(args.payload)
        THEN /\ ret.raised = "none"
             /\ ret.value = Str(SubSeq(args.payload, 1, DecVal(args.count)))
             /\ ret.index = start + DecVal(args.count)
        ELSE ret.raised = "ParseError"

\* ------------------------------------------------------ MIME normalization
\* what get_content_charset() / get_charset() give: None, a str (written as
\* its words, split at single spaces; the empty str is one empty word), or
\* an email.charset.Charset with its output charset
CsNone == [kind |-> "None", words |-> <<>>]
CsStr(words) == [kind |-> "str", words |-> words]
CsObj(output) == [kind |-> "Charset", words |-> <<output>>]
Truthy(v) == v.kind = "Charset" \/ (v.kind = "str" /\ v.words # <<"">>)
PyOr(a, b) == IF Truthy(a) THEN a ELSE b

\* message_part_charset that asks the whole message first
message_part_charset_message_first(part, message) ==
    LET of_message == PyOr(message.content_charset, message.charset)
        found == IF ~Truthy(of_message)
                 THEN PyOr(part.content_charset, part.charset)
                 ELSE of_message
    IN IF ~Truthy(found) THEN "ascii"
       ELSE IF found.kind = "Charset"
            THEN (IF found.words[1] # "" THEN found.words[1] ELSE "utf-8")
            ELSE found.words[1]

\* message.py:63-77
message_part_charset(part, message) ==
    LET of_part == PyOr(part.content_charset, part.charset)
        found == IF ~Truthy(of_part)
                 THEN PyOr(message.content_charset, message.charset)
                 ELSE of_part
    IN IF ~Truthy(found) THEN "ascii"
       ELSE IF found.kind = "Charset"
            THEN (IF found.words[1] # "" THEN found.words[1] ELSE "utf-8")
            ELSE found.words[1]

\* unicode(payload, charset, errors): the codec a charset name stands for
\* ("" when Python knows none), and the outcome of decoding the three sorts
\* of bytes a payload is made of: pure ASCII, UTF-8 with multi-byte
\* characters, and Latin-1 with bytes that are not valid UTF-8
CodecOf(name) ==
    CASE name \in {"ascii", "us-ascii"} -> "ascii"
      [] name \in {"latin-1", "iso-8859-1"} -> "latin-1"
      [] name = "utf-8" -> "utf-8"
      [] name = "koi8-r" -> "koi8-r"
      [] OTHER -> ""
Text(bytes, how) == <<"text", bytes, how>>
Error(e) == <<e, "", "">>
\* a payload that replace() has written is marked with "+"; its bytes are
\* of the same three sorts
Rewritten(bytes) ==
    CASE bytes \in {"ascii", "ascii+"} -> "ascii+"
      [] bytes \in {"utf8", "utf8+"} -> "utf8+"
      [] OTHER -> "latin1+"
IsRewritten(bytes) == bytes \in {"ascii+", "utf8+", "latin1+"}
BytesOf(payload) ==
    CASE payload = "ascii+" -> "ascii"
      [] payload = "utf8+" -> "utf8"
      [] payload = "latin1+" -> "latin1"
      [] OTHER -> payload
unicode(payload, charset, errors) ==
    LET codec == CodecOf(charset) IN
    IF codec = "" THEN Error("LookupError")
    ELSE IF BytesOf(payload) = "ascii" THEN Text(payload, "")
    ELSE IF codec \in {"latin-1", "koi8-r"} THEN Text(payload, codec)
    ELSE IF codec = "utf-8" /\ BytesOf(payload) = "utf8" THEN Text(payload, "utf-8")
    ELSE IF errors = "replace" THEN Text(payload, codec \o "/replace")
    ELSE Error("UnicodeDecodeError")

\* "utf-8" in charset
ContainsUtf8(charset) == charset \in {"utf-8", "x-utf-8"}

\* email.message.Message.set_charset("utf-8"): the part now declares utf-8
set_charset_utf8(part) ==
    [part EXCEPT !.content_charset = CsStr(<<"utf-8">>), !.charset = CsObj("utf-8")]

\* message.py:105-162: the part as the call leaves it, what the call
\* returns, and how many times it ran a charset decoder
utf8_encode_message_part(message_part, message, default) ==
    IF message_part.has_normalized
    THEN [part |-> message_part, result |-> message_part.normalized, decodes |-> 0]
    ELSE IF message_part.payload = "unicode"
    THEN [part |-> [message_part EXCEPT !.has_orig_charset = TRUE,
                                         !.orig_charset = "utf-8"],
          result |-> Text("unicode", ""), decodes |-> 0]
    ELSE
    LET section_charset == message_part_charset(message_part, message)
        charset == IF section_charset # "" THEN section_charset ELSE default
        noted == IF ~message_part.has_orig_charset
                 THEN set_charset_utf8([message_part EXCEPT
                                          !.has_orig_charset = TRUE,
                                          !.orig_charset = charset])
                 ELSE message_part
        normalized ==
            IF charset # "" /\ ~ContainsUtf8(charset)
            THEN unicode(message_part.payload, charset, "replace")
            ELSE IF charset = "utf-8"
            THEN unicode(message_part.payload, "utf-8", "strict")
            ELSE unicode(message_part.payload, "ascii", "replace")
    IN IF normalized[1] # "text"
       THEN [part |-> noted, result |-> normalized, decodes |-> 1]
       ELSE [part |-> [noted EXCEPT !.has_normalized = TRUE,
                                    !.normalized = normalized],
             result |-> normalized, decodes |-> 1]

\* ---- inputs: a part and the message it belongs to
MaxCalls == 2
Parts ==
    [content_charset : {CsNone, CsStr(<<"">>), CsStr(<<"latin-1">>),
                        CsStr(<<"utf-8", "mime-version:", "1.0">>),
                        CsStr(<<"x-unknown">>)},
     charset : {CsNone, CsObj("utf-8"), CsObj("iso-8859-1")},
     payload : {"unicode", "ascii", "utf8", "latin1"},
     has_normalized : {FALSE}, normalized : {Error("")},
     has_orig_charset : {FALSE}, orig_charset : {""}]
Messages ==
    [content_charset : {CsNone, CsStr(<<"">>), CsStr(<<"koi8-r">>)},
     charset : {CsNone, CsObj("us-ascii")}]

\* ---- a Message with one text/plain and one text/html part
\* errors.py:173-181
NoEncodingError == <<"None", "", "">>
\* an is_encoding_error that knows UnicodeDecodeError only
is_unicode_decode_error(rs) == rs[1] = "UnicodeDecodeError"
is_encoding_error(rs) == rs[1] \in {"UnicodeDecodeError", "LookupError"}

\* message.py:594, message_part_charset(part, self.raw) or self.charset,
\* self.charset being self.raw.get_content_charset() (message.py:572)
section_encoding(part, m) ==
    LET found == message_part_charset(part, m.message) IN
    IF found # "" THEN found
    ELSE IF m.message.content_charset.kind = "str"
    THEN m.message.content_charset.words[1] ELSE ""

\* message.py:597-600 and 606-609: the error is kept, or the text added to
\* the body; adding anything else to a unicode string is a TypeError
add_section(text, error, section_text) ==
    IF is_encoding_error(section_text)
    THEN [body |-> text, encoding_error |-> section_text, raised |-> "none"]
    ELSE IF section_text[1] = "text"
    THEN [body |-> Append(text, section_text), encoding_error |-> error,
          raised |-> "none"]
    ELSE [body |-> text, encoding_error |-> error, raised |-> "TypeError"]

\* message.py:602-611, the loop over the text/html parts: h is what
\* utf8_encode_message_part gave for the part, sh what became of the body
html_section(m, h, sh) ==
    IF sh.raised # "none"
    THEN [m |-> [m EXCEPT !.html = h.part], raised |-> sh.raised]
    ELSE [m |-> [m EXCEPT !.html = h.part, !.body_html = sh.body,
                          !.encoding_error = sh.encoding_error,
                          !.has_built_body_strings = TRUE],
          raised |-> "none"]
html_part(m, h) == html_section(m, h, add_section(<<>>, m.encoding_error, h.result))

\* message.py:593-600, the loop over the text/plain parts
plain_section(m, p, sp) ==
    IF sp.raised # "none"
    THEN [m |-> [m EXCEPT !.plain = p.part], raised |-> sp.raised]
    ELSE html_part([m EXCEPT !.plain = p.part, !.body_plain = sp.body,
                             !.encoding_error = sp.encoding_error],
                   utf8_encode_message_part(m.html, m.message,
                                            section_encoding(m.html, m)))
plain_part(m, p) == plain_section(m, p, add_section(<<>>, m.encoding_error, p.result))

\* message.py:587-611
build_body_strings(m) ==
    IF m.has_built_body_strings THEN [m |-> m, raised |-> "none"]
    ELSE plain_part(m, utf8_encode_message_part(m.plain, m.message,
                                                section_encoding(m.plain, m)))

\* message.py:624-628 and 641-645: the error, the body, or None
body_or_error(m, text) ==
    IF m.encoding_error # NoEncodingError THEN m.encoding_error
    ELSE IF text # <<>> THEN <<"body", text, "">>
    ELSE <<"None", "", "">>

\* the text parts an html alternative is drawn from
HtmlParts ==
    {q \in Parts : /\ q.content_charset \in {CsNone, CsStr(<<"x-unknown">>)}
                   /\ q.charset \in {CsNone, CsObj("utf-8")}
                   /\ q.payload \in {"ascii", "latin1"}}
BodyInputs ==
    {[plain |-> q, html |-> h, message |-> m, fetched |-> <<q, h>>,
      has_built_body_strings |-> FALSE, body_plain |-> <<>>, body_html |-> <<>>,
      encoding_error |-> NoEncodingError, replaces |-> 0, replaced_at |-> 0,
      replace_result |-> "none"] :
        q \in Parts, h \in HtmlParts, m \in Messages}

\* message.py:613-628 and 630-645: html_body() and plain_body(), called in
\* any order
body_return(name, b) ==
    /\ call' = name
    /\ args' = b.m
    /\ ret' = IF b.raised # "none"
              THEN [ret EXCEPT !.raised = b.raised]
              ELSE [ret EXCEPT !.value =
                       Append(ret.value,
                              body_or_error(b.m, IF name = "plain_body"
                                                 THEN b.m.body_plain
                                                 ELSE b.m.body_html))]
Body(name) ==
    /\ "plain" \in DOMAIN args
    /\ call \in {"none", "plain_body", "html_body", "replace"}
    /\ ret.raised = "none"
    /\ Len(ret.value) < MaxCalls
    /\ body_return(name, build_body_strings(args))
    /\ UNCHANGED <<progVars, poolVars>>
plain_body == Body("plain_body")
html_body == Body("html_body")

\* ---- Message.replace on the parts in memory
MaxReplaces == 1

\* message.py:856-857, new_payload_section.encode(part._orig_charset,
\* errors="replace"): the sort of bytes written
encode(text, charset) ==
    IF BytesOf(text[2]) = "ascii" \/ CodecOf(charset) = "ascii" THEN "ascii"
    ELSE IF CodecOf(charset) = "utf-8" THEN "utf8"
    ELSE "latin1"

\* part.set_payload(new_payload_section, part._orig_charset), message.py:859-876
set_payload(part, bytes, charset) ==
    [part EXCEPT !.payload = Rewritten(bytes),
                 !.content_charset = CsStr(<<charset>>),
                 !.charset = CsObj(charset)]

\* message.py:848-878: r is what utf8_encode_message_part gave; the part is
\* rewritten, then del part._normalized and del part._orig_charset; del of
\* an attribute that was never set raises AttributeError
rewrite_part(r) ==
    IF CodecOf(r.part.orig_charset) = ""
    THEN [part |-> r.part, raised |-> "LookupError", error |-> NoEncodingError]
    ELSE IF ~r.part.has_normalized
    THEN [part |-> set_payload(r.part, encode(r.result, r.part.orig_charset),
                               r.part.orig_charset),
          raised |-> "AttributeError", error |-> NoEncodingError]
    ELSE [part |-> [set_payload(r.part, encode(r.result, r.part.orig_charset),
                                r.part.orig_charset)
                       EXCEPT !.has_normalized = FALSE, !.normalized = Error(""),
                              !.has_orig_charset = FALSE, !.orig_charset = ""],
          raised |-> "none", error |-> NoEncodingError]

\* message.py:840-846
replace_section(r) ==
    IF is_encoding_error(r.result)
    THEN [part |-> r.part, raised |-> "none", error |-> r.result]
    ELSE rewrite_part(r)
replace_part(part, message) ==
    replace_section(utf8_encode_message_part(part, message,
                                             message_part_charset(part, message)))

\* message.py:826-883, the loop over 'plain' then 'html'; rh is what the
\* html part came to
replace_html(m, rh) ==
    IF rh.error # NoEncodingError
    THEN [m |-> [m EXCEPT !.html = rh.part, !.encoding_error = rh.error,
                          !.replace_result = "error"],
          raised |-> "none"]
    ELSE IF rh.raised # "none"
    THEN [m |-> [m EXCEPT !.html = rh.part], raised |-> rh.raised]
    ELSE [m |-> [m EXCEPT !.html = rh.part, !.replace_result = "save"],
          raised |-> "none"]
replace_plain(m, rp) ==
    IF rp.error # NoEncodingError
    THEN [m |-> [m EXCEPT !.plain = rp.part, !.encoding_error = rp.error,
                          !.replace_result = "error"],
          raised |-> "none"]
    ELSE IF rp.raised # "none"
    THEN [m |-> [m EXCEPT !.plain = rp.part], raised |-> rp.raised]
    ELSE replace_html([m EXCEPT !.plain = rp.part], replace_part(m.html, m.message))
replace(m) == replace_plain(m, replace_part(m.plain, m.message))

replace_return(b) ==
    /\ call' = "replace"
    /\ args' = [b.m EXCEPT !.replaces = @ + 1, !.replaced_at = Len(ret.value)]
    /\ ret' = [ret EXCEPT !.raised = b.raised]
Replace ==
    /\ "plain" \in DOMAIN args
    /\ call \in {"none", "plain_body", "html_body", "replace"}
    /\ ret.raised = "none"
    /\ args.replaces < MaxReplaces
    /\ replace_return(replace(args))
    /\ UNCHANGED <<progVars, poolVars>>

InitMime ==
    /\ ProgIdle
    /\ call = "none"
    /\ \/ args \in [part : Parts, message : Messages, fetched : Parts]
          /\ args.fetched = args.part
       \/ args \in BodyInputs
    /\ ret = [raised |-> "none", value |-> <<>>, decodes |-> 0]

MessagePartCharset ==
    /\ "part" \in DOMAIN args
    /\ call = "none"
    /\ call' = "message_part_charset"
    /\ ret' = [ret EXCEPT !.value = <<message_part_charset(args.part, args.message)>>]
    /\ UNCHANGED <<args, progVars, poolVars>>

Utf8EncodeMessagePart ==
    /\ "part" \in DOMAIN args
    /\ call \in {"none", "utf8_encode_message_part"}
    /\ Len(ret.value) < MaxCalls
    /\ LET r == utf8_encode_message_part(args.part, args.message, "ascii") IN
       /\ call' = "utf8_encode_message_part"
       /\ args' = [args EXCEPT !.part = r.part]
       /\ ret' = [ret EXCEPT !.value = Append(ret.value, r.result),
                             !.decodes = ret.decodes + r.decodes]
    /\ UNCHANGED <<progVars, poolVars>>

NextMime ==
    \/ MessagePartCharset
    \/ Utf8EncodeMessagePart
    \/ plain_body
    \/ html_body
    \/ Replace

SpecMime == InitMime /\ [][NextMime]_vars

\* ---------------------------------------------------------------- C18
\* the charset a part or a message declares: its Content-Type charset, or
\* else the Charset set on it
Declares(m) == Truthy(m.content_charset) \/ Truthy(m.charset)
Declared(m) ==
    IF Truthy(m.content_charset) THEN m.content_charset.words[1]
    ELSE m.charset.words[1]

\* C18: message_part_charset resolves the charset of a part in strict
\* precedence: the charset declared on the part if there is one, otherwise
\* the charset declared on the whole message if there is one, otherwise
\* "ascii".
C18_CharsetPrecedence ==
    call = "message_part_charset" =>
        ret.value = << IF Declares(args.part) THEN Declared(args.part)
                       ELSE IF Declares(args.message) THEN Declared(args.message)
                       ELSE "ascii" >>

C18_Witness ==
    /\ call = "message_part_charset"
    /\ ~Declares(args.part)
    /\ args.message.content_charset = CsStr(<<"koi8-r">>)
    /\ ret.value = <<"koi8-r">>

\* ---------------------------------------------------------------- C19
\* C19: normalization of a MIME part is idempotent and memoized: calling
\* utf8_encode_message_part twice on the same part with no replace in between
\* returns the same text both times and decodes at most once, and a payload
\* that is already Unicode is returned unchanged without any decoding.
C19_NormalizeOnce ==
    (call = "utf8_encode_message_part" /\ Len(ret.value) = 2) =>
        /\ ret.value[1] = ret.value[2]
        /\ ret.decodes <= 1
        /\ args.fetched.payload = "unicode"
            => (ret.value[1] = Text("unicode", "") /\ ret.decodes = 0)

\* ---------------------------------------------------------------- C20
\* the step about to run was handed the session, and the session is in
\* state LOGOUT
ObtainsClosedSession ==
    /\ MessageOp
    /\ connState = "LOGOUT"
    /\ loop # <<>> /\ ~Head(loop).wrap /\ Head(loop).arg.kind = "conn"
\* the step issued nothing and handed IMAPClosedError on
EndsWithClosedError ==
    /\ cmdlog' = cmdlog /\ inflight' = inflight /\ raised' = "none"
    /\ Len(loop') = 1 /\ loop'[1].arg = IMAPClosedError

\* C20: when a step of delete or save obtains a session that is in LOGOUT
\* state, the step issues no command on it and the operation ends with an
\* IMAPClosedError as its result.
C20_ClosedSession ==
    /\ [][ObtainsClosedSession => EndsWithClosedError]_vars
    /\ []((MessageOp /\ Finished /\ raised = "none"
           /\ \E i \in 1..Len(results) : results[i] = IMAPClosedError)
          => results = <<IMAPClosedError>>)

\* ================================================== Account.connection
\* account.py:27-66 with the keyword arguments of __init__ drawn: whether an
\* oauth2_token and id_params were given, and which snapshot of the library
\* is in use (pygmail.account.Account or the blocking GmailAccount)
AccountArgs ==
    [oauth2_token : BOOLEAN, id_params : BOOLEAN, impl : {"pygmail", "gmail"}]

\* errors.py:142-145 AuthError(msg)
AuthError == [kind |-> "AuthError", typ |-> "", data |-> <<>>]

CmdLogin == Command("LOGIN", NoMailbox, <<>>, "", <<>>, "", "")
CmdAuthenticate == Command("AUTHENTICATE", NoMailbox, <<>>, "XOAUTH2", <<>>, "", "")
CmdId == Command("ID", NoMailbox, <<>>, "", <<>>, "", "")
IsAuthCmd(c) == c.name \in {"LOGIN", "AUTHENTICATE"}

\* connection() that authenticates on every call
connection_always_login(q, cb) ==
    /\ loop' = q
    /\ Issue(IF args.oauth2_token THEN CmdAuthenticate ELSE CmdLogin,
             "on_authentication")

\* account.py:256-281, the body of connection(callback=cb): the connected
\* branch, else AUTHENTICATE or LOGIN through imap_cmd with
\* _on_authentication for its response; a command the session refuses
\* (state LOGOUT) raises inside the try and gives AuthError("")
connection(q, cb) ==
    IF connected
    THEN /\ loop' = AccountConnection(q, cb)
         /\ UNCHANGED <<inflight, cmdlog>>
    ELSE IF connState = "LOGOUT"
    THEN /\ loop' = loop_cb_args(q, cb, AuthError)
         /\ UNCHANGED <<inflight, cmdlog>>
    ELSE /\ loop' = q
         /\ Issue(IF args.oauth2_token THEN CmdAuthenticate ELSE CmdLogin,
                  "on_authentication")

\* account.py:360, the body of id(callback=cb): connection() is asked for
\* the session on behalf of _on_connection; connected was just set
AccountId(q) == AccountConnection(q, Wrapper("id_on_connection"))

\* account.py:238-254 _on_authentication
on_authentication ==
    /\ HeadIs("on_authentication")
    /\ IF Arg.typ # "OK"
       THEN /\ loop' = loop_cb_args(Tail(loop), Caller, AuthError)
            /\ UNCHANGED connected
       ELSE /\ connected' = TRUE
            /\ loop' = IF args.id_params
                       THEN AccountId(Tail(loop))
                       ELSE loop_cb_args(Tail(loop), Caller, VConn)
    /\ UNCHANGED <<connState, last_viewed_mailbox, selected, op, opMailbox,
                   cacheAtStart, opsStarted, was_deleted, inflight, cmdlog,
                   resplog, results, raised, select_callback, count_callback,
                   num_tries, deleted_uid, msgVars, libVars>>

\* account.py:342-357 id()._on_connection, under check_imap_state; the
\* callback is the wrapper imap_cmd built around connection()'s callback
id_on_connection ==
    OnConnection("id_on_connection", Wrapper("caller"), CmdId, "on_id")

\* account.py:338-340 id()._on_id, under check_imap_response
on_id == OnResponse("on_id", Wrapper("caller"), "caller")

\* a call of connection(callback=...) by the library's user, one at a time;
\* cmdlog and resplog keep growing over the calls: they are the session's
StartConnection ==
    /\ args.impl = "pygmail"
    /\ op = "idle" \/ Finished
    /\ opsStarted < MaxOps
    /\ op' = "connection"
    /\ opsStarted' = opsStarted + 1
    /\ raised' = "none"
    /\ results' = <<>>
    /\ connection(<<>>, Caller)
    /\ UNCHANGED <<acctVars, connState, last_viewed_mailbox, selected,
                   opMailbox, cacheAtStart, was_deleted, resplog,
                   select_callback, count_callback, num_tries, deleted_uid,
                   msgVars, libVars>>

\* src/account.py:99-121 GmailAccount.connection(), blocking: r is what
\* login (a password was given) or authenticate returned; a rejection
\* raises GmailAuthError before connected is set
gm_connection(r) ==
    IF connected
    THEN /\ results' = <<VConn>>
         /\ raised' = "none"
         /\ UNCHANGED <<connected, cmdlog, resplog>>
    ELSE /\ cmdlog' = Append(cmdlog, IF args.oauth2_token THEN CmdAuthenticate
                                     ELSE CmdLogin)
         /\ resplog' = Append(resplog, r)
         /\ IF r.typ # "OK"
            THEN /\ raised' = "GmailAuthError"
                 /\ results' = <<>>
                 /\ UNCHANGED connected
            ELSE /\ connected' = TRUE
                 /\ raised' = "none"
                 /\ results' = <<VConn>>

GmailAccountConnection ==
    /\ args.impl = "gmail"
    /\ opsStarted < MaxOps
    /\ op' = "gm_connection"
    /\ opsStarted' = opsStarted + 1
    /\ \E r \in Responses(CmdLogin) : gm_connection(r)
    /\ UNCHANGED <<connState, last_viewed_mailbox, selected, opMailbox,
                   cacheAtStart, was_deleted, loop, inflight, select_callback,
                   count_callback, num_tries, deleted_uid, msgVars, libVars>>

\* account.py:53-66: a new account is not connected
InitConn ==
    /\ PoolIdle
    /\ connected = FALSE
    /\ connState = "OPEN"
    /\ last_viewed_mailbox = NoMailbox
    /\ selected = NoMailbox
    /\ op = "idle"
    /\ opMailbox = NoMailbox
    /\ cacheAtStart = NoMailbox
    /\ opsStarted = 0
    /\ was_deleted = VNone
    /\ loop = <<>>
    /\ inflight = <<>>
    /\ cmdlog = <<>>
    /\ resplog = <<>>
    /\ results = <<>>
    /\ raised = "none"
    /\ select_callback = NoCallback
    /\ count_callback = NoCallback
    /\ num_tries = Unset
    /\ deleted_uid = <<>>
    /\ uid = OldUid
    /\ flags = <<>>
    /\ internal_date = NoDate
    /\ labels_raw = ""
    /\ body = "fetched"
    /\ fetched = [uid |-> uid, flags |-> flags, internal_date |-> internal_date,
                  labels_raw |-> labels_raw]
    /\ now = "now"
    /\ call = "none"
    /\ args \in AccountArgs
    /\ ret = NoRet

NextConn ==
    \/ StartConnection
    \/ GmailAccountConnection
    \/ Respond
    \/ Disconnect
    \/ callback_func
    \/ caller
    \/ on_authentication
    \/ id_on_connection
    \/ on_id

SpecConn == InitConn /\ [][NextConn]_vars

\* ---------------------------------------------------------------- C21
\* the last command of the session
LastCmd == cmdlog[Len(cmdlog)]
\* the last authentication of the session was rejected
AuthRejected ==
    /\ cmdlog # <<>> /\ Len(resplog) = Len(cmdlog)
    /\ IsAuthCmd(LastCmd) /\ resplog[Len(resplog)].typ # "OK"

MaxThreads == 2
MaxData == 2
MaxWork == 2

\* pool.py:19-20 with num_threads drawn
PoolArgs == [num_threads : 1..MaxThreads]

\* the items work() queues: pool.py:172-178 for data None, 183-191 per
\* element of data; work is the number of the work() call, whose
\* complete_callback the item carries
NoItem == [action |-> "none", work |-> 0, index |-> 0, account |-> 0]
DoSingle(w) == [action |-> "do_single", work |-> w, index |-> 0, account |-> 0]
Do(w, i) ==
    [action |-> "do", work |-> w, index |-> i, account |-> i % args.num_threads]
NoData == -1
DataLengths == {NoData} \cup 0..MaxData
Items(w, n) == IF n = NoData THEN <<DoSingle(w)>> ELSE [i \in 1..n |-> Do(w, i - 1)]

\* pool.py:162-166: num_threads new threads, each about to take an item
NewThreads == [i \in 1..args.num_threads |-> [pc |-> "get", item |-> NoItem]]

poolFrame == <<progVars, call, args, ret>>

\* pool.py:58, 90: the flag is False after __init__ and after end(), and
\* nothing sets it to True
threads_exist == FALSE

\* pool.py:82-91 end(): the lock is released whoever holds it (the error of
\* releasing a free lock is swallowed); stop items are queued only when
\* threads_exist
end ==
    /\ lock' = 0
    /\ IF threads_exist
       THEN queue' = queue \o [i \in 1..args.num_threads |->
                                 [NoItem EXCEPT !.action = "stop"]]
       ELSE UNCHANGED queue

\* the value the work callback returns for data[i] of work() call w
WorkResult(w, i) == i + 1
\* pool.py:181 [None] * self.work_count; for data None the one slot stands
\* for the thread's local response (pool.py:145)
EmptyContainer(n) == [i \in 1..(IF n = NoData THEN 1 ELSE n) |-> 0]

\* pool.py:134-191 work(): end() releases the lock and, threads_exist never
\* being True, stops no thread; the threads are created, the counts set
Work ==
    /\ puts = <<>>
    /\ Len(complete_calls) < MaxWork
    /\ end
    /\ \E n \in DataLengths :
          /\ work_count' = (IF n = NoData THEN 1 ELSE n)
          /\ puts' = Items(Len(complete_calls) + 1, n)
          /\ work_container' = Append(work_container, EmptyContainer(n))
    /\ threads' = IF threads_exist THEN threads ELSE threads \o NewThreads
    /\ complete_count' = 0
    /\ complete_calls' = Append(complete_calls, 0)
    /\ completed' = Append(completed, <<>>)
    /\ UNCHANGED poolFrame

\* pool.py:72-91: end() called by the owner of the pool between two work()
\* calls
End ==
    /\ puts = <<>>
    /\ end
    /\ UNCHANGED <<complete_count, work_count, threads, puts, complete_calls,
                   work_container, completed, poolFrame>>

\* pool.py:172 and 183: one self.queue.put(...) of work()
Put ==
    /\ puts # <<>>
    /\ queue' = Append(queue, Head(puts))
    /\ puts' = Tail(puts)
    /\ UNCHANGED <<complete_count, work_count, lock, threads, complete_calls,
                   work_container, completed, poolFrame>>

\* pool.py:138-147 thread_work: a_queue.get(), then the work callback is
\* called on the item's account (a stop item ends the thread)
Get(t) ==
    /\ threads[t].pc = "get"
    /\ queue # <<>>
    /\ threads' = [threads EXCEPT ![t] =
                     [pc |-> IF Head(queue).action = "stop" THEN "returned"
                             ELSE "call",
                      item |-> Head(queue)]]
    /\ queue' = Tail(queue)
    /\ UNCHANGED <<complete_count, work_count, lock, puts, complete_calls,
                   work_container, completed, poolFrame>>

\* pool.py:145-147: the work callback returns and its result is stored
Return_(t) ==
    /\ threads[t].pc = "call"
    /\ threads' = [threads EXCEPT ![t].pc = "acquire"]
    /\ work_container' =
          [work_container EXCEPT ![threads[t].item.work][threads[t].item.index + 1] =
              WorkResult(threads[t].item.work, threads[t].item.index)]
    /\ UNCHANGED <<queue, complete_count, work_count, lock, puts,
                   complete_calls, completed, poolFrame>>

\* pool.py:149 self.lock.acquire()
Acquire(t) ==
    /\ threads[t].pc = "acquire"
    /\ lock = 0
    /\ lock' = 1
    /\ threads' = [threads EXCEPT ![t].pc = "count"]
    /\ UNCHANGED <<queue, complete_count, work_count, puts, complete_calls,
                   work_container, completed, poolFrame>>

\* pool.py:150-152: the count is raised and the lock released; when end()
\* has released the lock meanwhile, release() raises and ends the thread
Count(t) ==
    /\ threads[t].pc = "count"
    /\ complete_count' = complete_count + 1
    /\ lock' = 0
    /\ threads' = [threads EXCEPT ![t].pc = IF lock = 0 THEN "raised" ELSE "check"]
    /\ UNCHANGED <<queue, work_count, puts, complete_calls, work_container,
                   completed, poolFrame>>

\* pool.py:156-160: outside the lock the counts are compared and the
\* item's complete_callback called
Check(t) ==
    /\ threads[t].pc = "check"
    /\ complete_calls' =
          IF complete_count = work_count
          THEN [complete_calls EXCEPT ![threads[t].item.work] = @ + 1]
          ELSE complete_calls
    /\ completed' =
          IF complete_count = work_count
          THEN [completed EXCEPT ![threads[t].item.work] =
                   Append(@, work_container[threads[t].item.work])]
          ELSE completed
    /\ threads' = [threads EXCEPT ![t].pc = "get"]
    /\ UNCHANGED <<queue, complete_count, work_count, lock, puts,
                   work_container, poolFrame>>

InitPool == ProgIdle /\ call = "none" /\ args \in PoolArgs /\ ret = NoRet

NextPool ==
    \/ Work
    \/ End
    \/ Put
    \/ \E t \in 1..Len(threads) : Get(t)
    \/ \E t \in 1..Len(threads) : Return_(t)
    \/ \E t \in 1..Len(threads) : Acquire(t)
    \/ \E t \in 1..Len(threads) : Count(t)
    \/ \E t \in 1..Len(threads) : Check(t)

SpecPool == InitPool /\ [][NextPool]_vars

\* ---------------------------------------------------------------- C22
\* C22: for each ConnectionPool.work call the complete callback is invoked
\* at most once, under every interleaving of the worker threads that finish
\* the last work items.
C22_CompleteAtMostOnce ==
    \A w \in 1..Len(complete_calls) : complete_calls[w] <= 1

\* ---------------------------------------------------------------- C23
\* C23: in Message.delete, after the COPY of the message into the trash
\* mailbox succeeds, a STORE +FLAGS \Deleted on the original UID followed by
\* an EXPUNGE is issued in the owning mailbox before the trash mailbox is
\* selected.
C23_OriginalExpungedBeforeTrash ==
    MessageOp =>
       \A k \in 1..Len(cmdlog) : \A c \in 1..(k - 1) :
          (/\ cmdlog[k] = CmdSelect(trash_folder)
           /\ cmdlog[c].name = "UID COPY" /\ resplog[c].typ = "OK")
          => \E i \in (c + 1)..(k - 1) : \E j \in (i + 1)..(k - 1) :
                /\ cmdlog[i] = CmdStoreDeleted(fetched.uid)
                /\ cmdlog[j] = CmdExpunge

\* ---------------------------------------------------------------- C24
\* command s is a trash SEARCH that was answered OK with at least one UID
FoundAt(s) ==
    /\ cmdlog[s].name = "UID SEARCH"
    /\ resplog[s].typ = "OK"
    /\ Len(resplog[s].data) > 0 /\ Len(resplog[s].data[1]) > 0
\* the last UID of that answer
LastUid(s) == resplog[s].data[1][Len(resplog[s].data[1])]
\* delete has reported True: to the caller, or to save's _on_delete
DeleteReportedTrue ==
    \/ op = "delete" /\ results = <<VTrue>>
    \/ op \in {"save", "replace"} /\ was_deleted = VTrue

\* C24: when a trash SEARCH returns at least one UID, Message.delete issues,
\* in this order and each only after the previous returned OK: UID STORE
\* +FLAGS \Deleted on the last UID of the search result, EXPUNGE, SELECT of
\* the original mailbox; it reports True only after that final SELECT
\* returned OK.
C24_FoundThenStoreExpungeSelect ==
    MessageOp =>
       /\ \A s \in 1..Len(resplog) :
             FoundAt(s) =>
                /\ Len(cmdlog) >= s + 1 => cmdlog[s + 1] = CmdStoreDeleted(LastUid(s))
                /\ Len(cmdlog) >= s + 2 =>
                      cmdlog[s + 2] = CmdExpunge /\ resplog[s + 1].typ = "OK"
                /\ Len(cmdlog) >= s + 3 =>
                      /\ cmdlog[s + 3] = CmdSelect(MessageMailbox)
                      /\ resplog[s + 2].typ = "OK"
                /\ DeleteReportedTrue =>
                      Len(resplog) >= s + 3 /\ resplog[s + 3].typ = "OK"
       /\ DeleteReportedTrue => \E s \in 1..Len(resplog) : FoundAt(s)

\* a delete whose SEARCH found two UIDs has reported True
C24_Witness ==
    /\ op = "delete" /\ Finished /\ results = <<VTrue>>
    /\ \E s \in 1..Len(resplog) : FoundAt(s) /\ Len(resplog[s].data[1]) = 2
    /\ Len(cmdlog) >= 4
    /\ cmdlog[Len(cmdlog) - 2] = CmdStoreDeleted(<<"4", "1">>)

\* ---------------------------------------------------------------- C25
\* command s is a trash SEARCH that was answered with a non-OK response
SearchFailedAt(s) == cmdlog[s].name = "UID SEARCH" /\ resplog[s].typ # "OK"
\* the error object made of response r
ErrorOf(r) == IMAPError(r.data, IF r.typ = "ABORT" THEN "None" ELSE r.typ)
\* a new SEARCH attempt is waiting on the loop
RetryScheduled ==
    \E i \in 1..Len(loop) :
       loop[i].fn = "on_trash_selected" /\ "force_success" \in loop[i].kwargs

IsSaveCmd(c) ==
    \/ c = CmdSelect(MessageMailbox)
    \/ c.name = "APPEND"
    \/ c.name = "UID STORE" /\ c.item = "+X-GM-LABELS"

\* C26: Message.save issues its commands in a fixed order: every command of
\* the delete protocol is answered before the owning mailbox is reselected,
\* the APPEND is issued only after that, the label STORE only after the
\* APPEND was answered OK; the text appended is the in-memory message, with
\* the body edits replace() applied.
C26_SaveOrder ==
    /\ [][(op \in {"save", "replace"} /\ was_deleted' # was_deleted)
            => (inflight = <<>> /\ Len(resplog) = Len(cmdlog))]_vars
    /\ [][(op \in {"save", "replace"} /\ HeadIs("on_delete")
           /\ Len(cmdlog') > Len(cmdlog))
            => cmdlog'[Len(cmdlog')] = CmdSelect(MessageMailbox)]_vars
    /\ [](op \in {"save", "replace"} =>
            \A i \in 1..Len(cmdlog) :
               /\ cmdlog[i].name = "APPEND" =>
                     /\ was_deleted = VTrue
                     /\ \A j \in 1..(i - 1) :
                           ~(cmdlog[j].name = "APPEND") /\ j <= Len(resplog)
                     /\ \A j \in (i + 1)..Len(cmdlog) :
                           cmdlog[j].name = "UID STORE" /\ cmdlog[j].item = "+X-GM-LABELS"
                     /\ cmdlog[i].text = body
                     /\ op = "replace" => cmdlog[i].text = "edited"
               /\ (cmdlog[i].name = "UID STORE" /\ cmdlog[i].item = "+X-GM-LABELS") =>
                     /\ i > 1
                     /\ cmdlog[i - 1].name = "APPEND"
                     /\ resplog[i - 1].typ = "OK"
               /\ (was_deleted # VNone /\ i > Len(resplog)) => IsSaveCmd(cmdlog[i]))

\* a replace ran to its end: delete, reselect, APPEND of the edited text,
\* label STORE
C26_Witness ==
    /\ op = "replace" /\ Finished /\ results = <<VTrue>>
    /\ Len(cmdlog) >= 3
    /\ cmdlog[1].name = "UID COPY"
    /\ cmdlog[Len(cmdlog) - 1].name = "APPEND"
    /\ cmdlog[Len(cmdlog) - 1].text = "edited"
    /\ cmdlog[Len(cmdlog)].item = "+X-GM-LABELS"

\* ---------------------------------------------------------------- C27
\* C27: parse terminates on every finite input, returning a token list or
\* raising an error: the cursor never moves backwards from one pass of the
\* loop to the next, nor inside read_literal once the CRLF is read, also
\* when the declared count is zero or negative, so the loop makes no more
\* passes than the input has characters, plus one.
C27_ParseTerminates ==
    /\ [][(call = "parse" /\ args.kind = "stream" /\ ret.raised = "running")
            => ret'.index >= ret.index]_vars
    /\ []((call = "parse" /\ args.kind = "stream")
            => ret.steps <= Len(args.data) + 1)
    /\ []((call = "read_literal" /\ ret.raised = "none")
            => ret.index >= Len(args.count) + 4)

\* ---------------------------------------------------------------- C28
\* the character at k of the text b is escaped: an odd number of
\* backslashes stands right before it
RECURSIVE BackslashesBefore(_, _)
BackslashesBefore(b, k) ==
    IF k > 1 /\ b[k - 1] = "\\" THEN 1 + BackslashesBefore(b, k - 1) ELSE 0
Escaped(b, k) == BackslashesBefore(b, k) % 2 = 1
ClosingQuotes(b) == {k \in 1..Len(b) : b[k] = "\"" /\ ~Escaped(b, k)}
FirstClosingQuote(b) == CHOOSE k \in ClosingQuotes(b) : \A l \in ClosingQuotes(b) : k <= l
\* backslash-quote is a quote, backslash-backslash a backslash, any other
\* backslash stays
RECURSIVE Unescape(_)
Unescape(b) ==
    IF b = <<>> THEN <<>>
    ELSE IF Len(b) >= 2 /\ b[1] = "\\" /\ b[2] \in {"\"", "\\"}
    THEN <<b[2]>> \o Unescape(SubSeq(b, 3, Len(b)))
    ELSE <<b[1]>> \o Unescape(Tail(b))

\* C28: read_quoted returns the characters between the opening quote and
\* the first unescaped closing quote, each backslash-quote turned into a
\* quote, each doubled backslash into one backslash, any other backslash
\* left as it is; without a closing quote it raises ParseError.
C28_ReadQuoted ==
    call = "read_quoted" =>
        IF ClosingQuotes(args.payload) # {}
        THEN /\ ret.raised = "none"
             /\ ret.value = Str(Unescape(SubSeq(args.payload, 1,
                                                FirstClosingQuote(args.payload) - 1)))
             /\ ret.index = FirstClosingQuote(args.payload) + 1
        ELSE ret.raised = "ParseError"

\* a doubled backslash, an escaped quote and the closing quote were read
\* as a backslash and a quote
C28_Witness ==
    /\ call = "read_quoted"
    /\ args.data = <<"\"", "\\", "\\", "\\", "\"", "\"">>
    /\ ret.raised = "none"
    /\ ret.value = Str(<<"\\", "\"">>)
    /\ ret.index = 6

\* ---------------------------------------------------------------- C29
\* the part, as fetched, does not decode: Python knows no codec of the
\* charset it resolves to, or the charset is utf-8 and the bytes are not
UnknownCharset(q, m) ==
    q.payload # "unicode" /\ CodecOf(message_part_charset(q, m)) = ""
InvalidBytes(q, m) ==
    message_part_charset(q, m) = "utf-8" /\ q.payload = "latin1"
FailsToDecode(q, m) == UnknownCharset(q, m) \/ InvalidBytes(q, m)

ReplaceMetUndecodablePart == op = "replace" /\ body = "fetched"

C31_ReplaceDiscardsMemo ==
    (call = "replace" /\ (IsRewritten(args.plain.payload) \/ IsRewritten(args.html.payload)))
        => /\ ret.raised = "none"
           /\ IsRewritten(args.plain.payload)
                => (~args.plain.has_normalized /\ ~args.plain.has_orig_charset)
           /\ IsRewritten(args.html.payload)
                => (~args.html.has_normalized /\ ~args.html.has_orig_charset)

\* ---------------------------------------------------------------- C32
\* the texts of a body that plain_body() or html_body() returned
IsBody(v) == v[1] = "body"
AllRewritten(v) == \A k \in 1..Len(v[2]) : IsRewritten(v[2][k][2])

\* C32: plain_body() and html_body() called after a Message.replace that
\* rewrote the parts return the text with the replacement applied, also when
\* they had been called on the message before the replace.
C32_BodyAfterReplace ==
    (/\ call \in {"plain_body", "html_body"}
     /\ args.replaces > 0 /\ args.replace_result = "save")
        => \A k \in (args.replaced_at + 1)..Len(ret.value) :
              IsBody(ret.value[k]) /\ AllRewritten(ret.value[k])

\* ===================================================== Account.mailboxes
\* account.py:40, self.boxes: None, or the list built from a LIST response;
\* added notes that a mailbox was created since mailboxes() last started,
\* at_start and after_add what mailboxes() found when it started
NoBoxes == [set |-> FALSE, data |-> <<>>]
Boxes(data) == [set |-> TRUE, data |-> data]
VBoxes(b) == [kind |-> "boxes", typ |-> "", data |-> b.data]
CmdList == Command("LIST", NoMailbox, <<>>, "", <<>>, "", "")
CmdCreate == Command("CREATE", "New", <<>>, "", <<>>, "", "")
boxesFrame == <<acctVars, connState, last_viewed_mailbox, selected, op,
                opMailbox, cacheAtStart, opsStarted, was_deleted, inflight,
                cmdlog, resplog, results, raised, select_callback,
                count_callback, num_tries, deleted_uid, msgVars, call, ret,
                poolVars>>

\* errors.py:148-155 and 132-139: isinstance tests of the value connection()
\* handed over
is_auth_error(v) == v.kind = "AuthError"
is_imap_error(v) == v.kind = "IMAPError"

\* account.py:157-188, the body of mailboxes()
StartMailboxes ==
    /\ Begin("mailboxes", NoMailbox)
    /\ loop' = IF args.boxes.set
               THEN loop_cb_args(<<>>, Caller, VBoxes(args.boxes))
               ELSE AccountConnection(<<>>, Wrapper("mailboxes_on_connection"))
    /\ args' = [args EXCEPT !.at_start = args.boxes, !.after_add = args.added,
                            !.added = FALSE]
    /\ UNCHANGED <<acctVars, connState, last_viewed_mailbox, selected,
                   inflight, select_callback, count_callback, num_tries,
                   deleted_uid, msgVars, call, ret, poolVars>>

\* account.py:179-185
mailboxes_on_connection ==
    /\ HeadIs("mailboxes_on_connection")
    /\ LET error == check_imap_state(Arg) IN
       IF error # VNone
       THEN /\ loop' = _cmd(Tail(loop), Caller, error)
            /\ UNCHANGED <<inflight, cmdlog>>
       ELSE IF is_auth_error(Arg) \/ is_imap_error(Arg)
       THEN /\ loop' = loop_cb_args(Tail(loop), Caller, Arg)
            /\ UNCHANGED <<inflight, cmdlog>>
       ELSE /\ loop' = Tail(loop)
            /\ Issue(CmdList, "on_mailboxes")
    /\ UNCHANGED frameIssue

\* account.py:171-177
on_mailboxes ==
    /\ HeadIs("on_mailboxes")
    /\ LET error == check_imap_response(Arg) IN
       IF error # VNone
       THEN /\ loop' = _cmd(Tail(loop), Caller, error)
            /\ UNCHANGED args
       ELSE /\ args' = [args EXCEPT !.boxes = Boxes(extract_data(Arg))]
            /\ loop' = loop_cb_args(Tail(loop), Caller, VBoxes(Boxes(extract_data(Arg))))
    /\ UNCHANGED boxesFrame

\* account.py:68-106, the body of add_mailbox()
StartAddMailbox ==
    /\ Begin("add_mailbox", NoMailbox)
    /\ loop' = AccountConnection(<<>>, Wrapper("add_on_connection"))
    /\ UNCHANGED <<acctVars, connState, last_viewed_mailbox, selected,
                   inflight, select_callback, count_callback, num_tries,
                   deleted_uid, msgVars, libVars>>

\* account.py:94-103
add_on_connection ==
    /\ HeadIs("add_on_connection")
    /\ LET error == check_imap_state(Arg) IN
       IF error # VNone
       THEN /\ loop' = _cmd(Tail(loop), Caller, error)
            /\ UNCHANGED <<inflight, cmdlog>>
       ELSE IF is_auth_error(Arg)
       THEN /\ loop' = loop_cb_args(Tail(loop), Caller, Arg)
            /\ UNCHANGED <<inflight, cmdlog>>
       ELSE /\ loop' = Tail(loop)
            /\ Issue(CmdCreate, "on_mailbox_creation")
    /\ UNCHANGED frameIssue

\* data[0] == "Success"
was_success(data) == data # <<>> /\ data[1] = <<<<"Success">>>>

\* _on_mailbox_creation that leaves the cached list in place
on_mailbox_creation_keeps_boxes ==
    /\ HeadIs("on_mailbox_creation")
    /\ LET error == check_for_response_error(Arg) IN
       IF error # VNone
       THEN /\ loop' = loop_cb_args(Tail(loop), Caller, error)
            /\ UNCHANGED args
       ELSE /\ args' = [args EXCEPT !.added = was_success(extract_data(Arg))]
            /\ loop' = loop_cb_args(Tail(loop), Caller,
                                    VBool(was_success(extract_data(Arg))))
    /\ UNCHANGED boxesFrame

\* account.py:81-92
on_mailbox_creation ==
    /\ HeadIs("on_mailbox_creation")
    /\ LET error == check_for_response_error(Arg) IN
       IF error # VNone
       THEN /\ loop' = loop_cb_args(Tail(loop), Caller, error)
            /\ UNCHANGED args
       ELSE IF extract_type(Arg) = "NO"
       THEN /\ loop' = loop_cb_args(Tail(loop), Caller, VFalse)
            /\ UNCHANGED args
       ELSE /\ args' = [args EXCEPT !.boxes = NoBoxes,
                                    !.added = was_success(extract_data(Arg))]
            /\ loop' = loop_cb_args(Tail(loop), Caller,
                                    VBool(was_success(extract_data(Arg))))
    /\ UNCHANGED boxesFrame

\* account.py:283-293 clear_mailbox_cache(): len(None) is a TypeError
ClearMailboxCache ==
    /\ CanStart
    /\ op' = "clear_mailbox_cache"
    /\ opMailbox' = NoMailbox
    /\ opsStarted' = opsStarted + 1
    /\ cmdlog' = <<>> /\ resplog' = <<>>
    /\ IF args.boxes.set
       THEN /\ args' = [args EXCEPT !.boxes = NoBoxes]
            /\ results' = <<VInt>>
            /\ raised' = "none"
       ELSE /\ raised' = "TypeError"
            /\ results' = <<>>
            /\ UNCHANGED args
    /\ UNCHANGED <<acctVars, connState, last_viewed_mailbox, selected,
                   cacheAtStart, was_deleted, loop, inflight, select_callback,
                   count_callback, num_tries, deleted_uid, msgVars, call, ret,
                   poolVars>>

InitBoxes ==
    /\ ProgIdle
    /\ call = "none"
    /\ ret = NoRet
    /\ args \in [boxes : {NoBoxes, Boxes(<<<<<<"INBOX">>>>>>)}, at_start : {NoBoxes},
                 after_add : {FALSE}, added : {FALSE}]

NextBoxes ==
    \/ StartMailboxes
    \/ StartAddMailbox
    \/ ClearMailboxCache
    \/ Respond
    \/ Disconnect
    \/ callback_func
    \/ caller
    \/ mailboxes_on_connection
    \/ on_mailboxes
    \/ add_on_connection
    \/ on_mailbox_creation

SpecBoxes == InitBoxes /\ [][NextBoxes]_vars

\* ---------------------------------------------------------------- C33
\* C33: after a successful add_mailbox, the next mailboxes() call does not
\* answer from the cached list: it issues a LIST command (or ends with the
\* error of a closed session); while the cache is populated and no mailbox
\* was added, mailboxes() issues no command and delivers the cached list.
C33_AddMailboxClearsCache ==
    op = "mailboxes" =>
       /\ args.after_add =>
             /\ ~args.at_start.set
             /\ Finished => (CountCmd("LIST") = 1 \/ results = <<IMAPClosedError>>)
             /\ (results # <<>> /\ results[1].kind = "boxes") =>
                   (resplog # <<>> /\ resplog[Len(resplog)].typ = "OK"
                    /\ results[1].data = resplog[Len(resplog)].data)
       /\ args.at_start.set =>
             /\ cmdlog = <<>> /\ inflight = <<>>
             /\ Finished => results = <<VBoxes(args.at_start)>>

\* the cache was populated, a mailbox was added, and mailboxes() listed anew
C33_Witness ==
    /\ op = "mailboxes" /\ Finished /\ args.after_add
    /\ cmdlog = <<CmdList>>
    /\ results = <<VBoxes(Boxes(<<<<<<"INBOX">>, <<"New">>>>>>))>>
    /\ args.boxes = Boxes(<<<<<<"INBOX">>, <<"New">>>>>>)

\* ========================================================= Mailbox.fetch
\* mailbox.py:585-596, the key of imap_queries that _on_connection picks
fetch_request(gm_ids, full, teasers) ==
    IF gm_ids THEN "gm_id"
    ELSE IF full THEN "body"
    ELSE IF teasers THEN "teaser"
    ELSE "header"

\* mailbox.py:32-132 parse_fetch_request: the branch that reads the
\* response, named after the query whose response it expects; an empty
\* response is read by none
parse_fetch_request(response, teaser, full, gm_id) ==
    IF response = <<>> \/ response[1] = <<>> THEN "empty"
    ELSE IF gm_id THEN "gm_id"
    ELSE IF teaser THEN "teaser"
    ELSE IF full THEN "body"
    ELSE "header"

CmdFetch(request) == Command("UID FETCH", "", OldUid, request, <<>>, "", "")
VMessage(mode) == [kind |-> "message", typ |-> mode, data |-> <<>>]

\* mailbox.py:551-601, the body of fetch()
StartFetch ==
    \E m \in Mailboxes :
       /\ Begin("fetch", m)
       /\ MailboxSelect(<<>>, m, Wrapper("fetch_on_select"))
       /\ args' = [args EXCEPT !.parsed_as = "none"]
       /\ UNCHANGED <<acctVars, connState, last_viewed_mailbox, selected,
                      inflight, num_tries, deleted_uid, msgVars, call, ret,
                      poolVars>>

\* mailbox.py:598-599 _on_select
fetch_on_select ==
    /\ HeadIs("fetch_on_select")
    /\ loop' = AccountConnection(Tail(loop), Wrapper("fetch_on_connection"))
    /\ UNCHANGED frameLoop

\* mailbox.py:585-596 _on_connection: no state check, imaplib2 raises on a
\* closed session
fetch_on_connection ==
    /\ HeadIs("fetch_on_connection")
    /\ loop' = Tail(loop)
    /\ IF connState = "LOGOUT"
       THEN /\ raised' = "imaplib.error"
            /\ UNCHANGED <<inflight, cmdlog>>
       ELSE /\ Issue(CmdFetch(fetch_request(args.gm_ids, args.full, args.teaser)),
                     "on_fetch")
            /\ UNCHANGED raised
    /\ UNCHANGED <<acctVars, connState, last_viewed_mailbox, selected, op,
                   opMailbox, cacheAtStart, opsStarted, was_deleted, resplog, results,
                   select_callback, count_callback, num_tries, deleted_uid,
                   msgVars, libVars>>

\* mailbox.py:579-583 _on_fetch
on_fetch ==
    /\ HeadIs("on_fetch")
    /\ LET error == register_callback_if_error(Arg) IN
       IF error # VNone
       THEN /\ loop' = loop_cb_args(Tail(loop), Caller, error)
            /\ UNCHANGED args
       ELSE /\ args' = [args EXCEPT !.parsed_as =
                           parse_fetch_request(extract_data(Arg), args.teaser,
                                               args.full, args.gm_ids)]
            /\ loop' = loop_cb_args(Tail(loop), Caller,
                          IF parse_fetch_request(extract_data(Arg), args.teaser,
                                                 args.full, args.gm_ids) = "empty"
                          THEN VNone
                          ELSE VMessage(parse_fetch_request(extract_data(Arg),
                                                            args.teaser, args.full,
                                                            args.gm_ids)))
    /\ UNCHANGED boxesFrame

InitFetch ==
    /\ ProgIdle
    /\ call = "none"
    /\ ret = NoRet
    /\ args \in [teaser : BOOLEAN, full : BOOLEAN, gm_ids : BOOLEAN,
                 parsed_as : {"none"}]

NextFetch ==
    \/ StartFetch
    \/ Respond
    \/ Disconnect
    \/ callback_func
    \/ caller
    \/ count_on_connection
    \/ count_on_select_complete
    \/ on_count_complete
    \/ fetch_on_select
    \/ fetch_on_connection
    \/ on_fetch

SpecFetch == InitFetch /\ [][NextFetch]_vars

\* ---------------------------------------------------------------- C34
\* C34: when a fetch is requested with both teaser and full, teaser takes
\* precedence: the attribute set requested from the server and the mode the
\* response is parsed in are both the teaser ones; the attribute set
\* requested and the parsing mode always agree.
C34_TeaserPrecedence ==
    op = "fetch" =>
       \A i \in 1..Len(cmdlog) :
          cmdlog[i].name = "UID FETCH" =>
             /\ (args.teaser /\ args.full /\ ~args.gm_ids) => cmdlog[i].item = "teaser"
             /\ args.parsed_as \notin {"none", "empty"} => args.parsed_as = cmdlog[i].item

\* ================================================ ConnectionPool, claims
\* the threads that have neither returned on a stop item nor died
Live(t) == threads[t].pc \notin {"returned", "raised"}
LiveThreads == {t \in 1..Len(threads) : Live(t)}
\* thread t is inside the work callback, pool.py:145-147
InWorkCallback(t) == threads[t].pc = "call"

\* ---------------------------------------------------------------- C35
\* C35: no two worker threads run a work callback against the same Account
\* connection at the same time.
C35_OneThreadPerAccount ==
    \A t \in 1..Len(threads) : \A u \in 1..Len(threads) :
       (t # u /\ InWorkCallback(t) /\ InWorkCallback(u))
          => threads[t].item.account # threads[u].item.account

\* ---------------------------------------------------------------- C36
\* one step of worker thread t, pool.py:136-160
thread_work(t) ==
    /\ t <= Len(threads)
    /\ (Get(t) \/ Return_(t) \/ Acquire(t) \/ Count(t) \/ Check(t))

\* the scheduler runs every thread that can run, and work() goes on putting
SpecPoolFair ==
    /\ SpecPool
    /\ WF_vars(Put)
    /\ \A t \in 1..(MaxThreads * MaxWork) : SF_vars(thread_work(t))

\* work() call w was made and every work callback of it has returned
AllReturned(w) ==
    /\ w <= Len(work_container)
    /\ \A i \in 1..Len(work_container[w]) : work_container[w][i] # 0
\* the results of work() call w, results[i] being the result of data[i]
Results(w) == [i \in 1..Len(work_container[w]) |-> WorkResult(w, i - 1)]

\* C36: for every work call, once all its work callbacks have returned, the
\* complete callback is eventually invoked, and what it receives is the list
\* of results with results[i] the result of data[i]; this holds also when
\* data is empty.
C36_CompleteEventually ==
    /\ \A w \in 1..MaxWork :
          AllReturned(w) ~> (w <= Len(complete_calls) /\ complete_calls[w] >= 1)
    /\ [](\A w \in 1..Len(completed) : \A k \in 1..Len(completed[w]) :
             completed[w][k] = Results(w))

\* ---------------------------------------------------------------- C37
\* C37: the number of live worker threads never exceeds num_threads, after
\* any number of work() and end() calls.
C37_ThreadsBounded ==
    Cardinality(LiveThreads) <= args.num_threads

\* ============================== two delete() calls on one Message, async
\* message.py:308-422 called twice on the same Message object before the
\* first call has delivered its result.  Each call has its own closures
\* (callback, handlers, callback_args); self.num_tries is the one attribute
\* both write.  The session stays open.
Deletes == 1..2
NewDelete == [started |-> FALSE, searches |-> 0, results |-> <<>>, raised |-> "none"]

\* a call on the loop, and a command sent, each tagged with its delete call
Scheduled(i, h, arg, kwargs, cbp) ==
    [d |-> i, fn |-> h, arg |-> arg, kwargs |-> kwargs, cbp |-> cbp]
Sent(i, c, h) == [d |-> i, cmd |-> c, cb |-> h]
Runs(h) == loop # <<>> /\ Head(loop).fn = h
Me == Head(loop).d

sharedFrame == <<acctVars, connState, last_viewed_mailbox, selected, op,
                 opMailbox, cacheAtStart, opsStarted, was_deleted, cmdlog,
                 resplog, results, raised, select_callback, count_callback,
                 deleted_uid, msgVars, call, ret, poolVars>>

\* message.py:422: delete() number i is called; Mailbox.select sends the
\* SELECT of the message's mailbox and hands the answer to _on_mailbox_select
d_delete ==
    \E i \in Deletes :
       /\ ~args.deletes[i].started
       /\ args' = [args EXCEPT !.deletes[i].started = TRUE]
       /\ inflight' = Append(inflight,
                             Sent(i, CmdSelect(MessageMailbox), "on_mailbox_select"))
       /\ UNCHANGED <<loop, num_tries, sharedFrame>>

\* utilities.py:170-177: the answer to the oldest command arrives and the
\* handler of the call that sent it is scheduled
d_Respond ==
    /\ inflight # <<>>
    /\ \E r \in Responses(Head(inflight).cmd) :
          loop' = Append(loop, Scheduled(Head(inflight).d, Head(inflight).cb, r,
                                         {}, <<>>))
    /\ inflight' = Tail(inflight)
    /\ UNCHANGED <<args, num_tries, sharedFrame>>

\* the callback delete() number i was called with receives a result
d_caller ==
    /\ Runs("caller")
    /\ args' = [args EXCEPT !.deletes[Me].results = Append(@, Head(loop).arg)]
    /\ loop' = Tail(loop)
    /\ UNCHANGED <<inflight, num_tries, sharedFrame>>

\* a handler decorated with check_imap_response that goes on with
\* _cmd_cb(self.conn, next, True)
d_OnResponse(h, next) ==
    /\ Runs(h)
    /\ LET error == check_imap_response(Head(loop).arg) IN
       loop' = IF error # VNone
               THEN Append(Tail(loop), Scheduled(Me, "caller", error, {}, <<>>))
               ELSE Append(Tail(loop), Scheduled(Me, next, VConn, {}, <<>>))
    /\ UNCHANGED <<args, inflight, num_tries, sharedFrame>>

\* a handler decorated with check_imap_state that sends command c
d_OnConnection(h, c, next) ==
    /\ Runs(h)
    /\ LET error == check_imap_state(Head(loop).arg) IN
       IF error # VNone
       THEN /\ loop' = Append(Tail(loop), Scheduled(Me, "caller", error, {}, <<>>))
            /\ UNCHANGED inflight
       ELSE /\ loop' = Tail(loop)
            /\ inflight' = Append(inflight, Sent(Me, c, next))
    /\ UNCHANGED <<args, num_tries, sharedFrame>>

\* message.py:418-420
d_on_mailbox_select == d_OnResponse("on_mailbox_select", "on_received_connection")
\* message.py:413-416
d_on_received_connection ==
    d_OnConnection("on_received_connection", CmdCopy, "on_message_moved")
\* message.py:409-411
d_on_message_moved == d_OnResponse("on_message_moved", "on_received_connection_2")

\* message.py:404-407: self.num_tries = 0, then SELECT of the trash folder
d_on_received_connection_2 ==
    /\ Runs("on_received_connection_2")
    /\ LET error == check_imap_state(Head(loop).arg) IN
       IF error # VNone
       THEN /\ loop' = Append(Tail(loop), Scheduled(Me, "caller", error, {}, <<>>))
            /\ UNCHANGED <<inflight, num_tries>>
       ELSE /\ num_tries' = 0
            /\ loop' = Tail(loop)
            /\ inflight' = Append(inflight,
                                  Sent(Me, CmdSelect(trash_folder), "on_trash_selected"))
    /\ UNCHANGED <<args, sharedFrame>>

\* message.py:391-402: called by the retry without imap_response it raises
\* TypeError
d_on_trash_selected ==
    /\ Runs("on_trash_selected")
    /\ IF Head(loop).arg = VMissing
       THEN /\ args' = [args EXCEPT !.deletes[Me].raised = "TypeError"]
            /\ loop' = Tail(loop)
       ELSE /\ UNCHANGED args
            /\ LET is_error == IF "force_success" \in Head(loop).kwargs THEN VNone
                               ELSE check_for_response_error(Head(loop).arg)
               IN
               loop' = IF is_error # VNone
                       THEN Append(Tail(loop),
                                   Scheduled(Me, "caller", is_error, {}, <<>>))
                       ELSE Append(Tail(loop),
                                   Scheduled(Me, "on_received_connection_3", VConn,
                                             {}, <<>>))
    /\ UNCHANGED <<inflight, num_tries, sharedFrame>>

\* message.py:385-389: one SEARCH attempt of this delete call
d_on_received_connection_3 ==
    /\ Runs("on_received_connection_3")
    /\ LET error == check_imap_state(Head(loop).arg) IN
       IF error # VNone
       THEN /\ loop' = Append(Tail(loop), Scheduled(Me, "caller", error, {}, <<>>))
            /\ UNCHANGED <<inflight, args>>
       ELSE /\ loop' = Tail(loop)
            /\ inflight' = Append(inflight,
                                  Sent(Me, CmdSearch, "on_search_for_message_complete"))
            /\ args' = [args EXCEPT !.deletes[Me].searches = @ + 1]
    /\ UNCHANGED <<num_tries, sharedFrame>>

\* message.py:346-383.  In a build with __debug__ the branches that follow
\* an empty answer call _log.error, and _log (utilities.py:75) is a function:
\* AttributeError is raised after the counter was changed.
d_on_search_for_message_complete ==
    /\ Runs("on_search_for_message_complete")
    /\ LET error == check_imap_response(Head(loop).arg)
           data == extract_data(Head(loop).arg)
       IN
       IF error # VNone
       THEN /\ loop' = Append(Tail(loop), Scheduled(Me, "caller", error, {}, <<>>))
            /\ UNCHANGED <<num_tries, args>>
       ELSE IF HasLastToken(data)
       THEN /\ loop' = Append(Tail(loop),
                              Scheduled(Me, "on_received_connection_4", VConn, {},
                                        LastToken(data)))
            /\ UNCHANGED <<num_tries, args>>
       ELSE IF num_tries = Unset
       THEN /\ args' = [args EXCEPT !.deletes[Me].raised = "AttributeError"]
            /\ loop' = Tail(loop)
            /\ UNCHANGED num_tries
       ELSE /\ num_tries' = IF num_tries + 1 = MaxTries THEN Unset ELSE num_tries + 1
            /\ IF args.debug
               THEN /\ args' = [args EXCEPT !.deletes[Me].raised = "AttributeError"]
                    /\ loop' = Tail(loop)
               ELSE /\ UNCHANGED args
                    /\ loop' = IF num_tries + 1 = MaxTries
                               THEN Append(Tail(loop),
                                           Scheduled(Me, "caller", VFalse, {}, <<>>))
                               ELSE Append(Tail(loop),
                                           Scheduled(Me, "on_trash_selected", VMissing,
                                                     {"force_success"}, <<>>))
    /\ UNCHANGED <<inflight, sharedFrame>>

\* message.py:339-344: del self.num_tries, then STORE \Deleted
d_on_received_connection_4 ==
    /\ Runs("on_received_connection_4")
    /\ LET error == check_imap_state(Head(loop).arg) IN
       IF error # VNone
       THEN /\ loop' = Append(Tail(loop), Scheduled(Me, "caller", error, {}, <<>>))
            /\ UNCHANGED <<inflight, num_tries, args>>
       ELSE IF num_tries = Unset
       THEN /\ args' = [args EXCEPT !.deletes[Me].raised = "AttributeError"]
            /\ loop' = Tail(loop)
            /\ UNCHANGED <<inflight, num_tries>>
       ELSE /\ num_tries' = Unset
            /\ loop' = Tail(loop)
            /\ inflight' = Append(inflight,
                                  Sent(Me, CmdStoreDeleted(Head(loop).cbp),
                                       "on_delete_complete"))
            /\ UNCHANGED args
    /\ UNCHANGED sharedFrame

\* message.py:335-337
d_on_delete_complete ==
    d_OnResponse("on_delete_complete", "on_recevieved_connection_5")
\* message.py:331-333
d_on_recevieved_connection_5 ==
    d_OnConnection("on_recevieved_connection_5", CmdExpunge, "on_expunge_complete")
\* message.py:327-329
d_on_expunge_complete ==
    d_OnResponse("on_expunge_complete", "on_recevieved_connection_6")
\* message.py:322-325
d_on_recevieved_connection_6 ==
    d_OnConnection("on_recevieved_connection_6", CmdSelect(MessageMailbox),
                   "on_original_mailbox_reselected")

\* message.py:318-320
d_on_original_mailbox_reselected ==
    /\ Runs("on_original_mailbox_reselected")
    /\ LET error == check_imap_response(Head(loop).arg) IN
       loop' = Append(Tail(loop),
                      Scheduled(Me, "caller", IF error # VNone THEN error ELSE VTrue,
                                {}, <<>>))
    /\ UNCHANGED <<args, inflight, num_tries, sharedFrame>>

InitShared ==
    /\ ProgIdle
    /\ call = "none"
    /\ ret = NoRet
    /\ args \in [deletes : {[i \in Deletes |-> NewDelete]}, debug : BOOLEAN]

NextShared ==
    \/ d_delete
    \/ d_Respond
    \/ d_caller
    \/ d_on_mailbox_select
    \/ d_on_received_connection
    \/ d_on_message_moved
    \/ d_on_received_connection_2
    \/ d_on_trash_selected
    \/ d_on_received_connection_3
    \/ d_on_search_for_message_complete
    \/ d_on_received_connection_4
    \/ d_on_delete_complete
    \/ d_on_recevieved_connection_5
    \/ d_on_expunge_complete
    \/ d_on_recevieved_connection_6
    \/ d_on_original_mailbox_reselected

SpecShared == InitShared /\ [][NextShared]_vars

\* ---------------------------------------------------------------- C38
\* delete call i has nothing scheduled and nothing sent any more
Ended38(i) ==
    /\ args.deletes[i].started
    /\ \A k \in 1..Len(loop) : loop[k].d # i
    /\ \A k \in 1..Len(inflight) : inflight[k].d # i
\* both calls were in progress at once
BothStarted == \A i \in Deletes : args.deletes[i].started

\* C38: when two delete operations that share a retry counter are in
\* progress at once in async mode, each of them performs at most 5 SEARCH
\* attempts and each ends with its own single result.
C38_SharedRetryCounter ==
    BothStarted =>
       \A i \in Deletes :
          /\ args.deletes[i].searches <= MaxTries
          /\ Len(args.deletes[i].results) <= 1
          /\ Ended38(i) => Len(args.deletes[i].results) = 1

\* ============================================ Message.delete, blocking mode
\* delete(trash_folder) with no callback: bool(callback) is False and
\* _cmd_cb (utilities.py:178-183) calls callback(main_func(...)) at once.

\* mailbox.py:358-377 select() and account.py:256-257 connection(): both
\* hand their result to loop_cb_args and have no return statement on these
\* paths, so the caller that passed no callback receives None
select_returns == VNone
connection_returns == VNone

Returned(v) == [raised |-> "none", value |-> v]
Raised(e) == [raised |-> e, value |-> VNone]

\* the responses the commands from the COPY on were answered with
FromCopy(cmds, rs) ==
    LET copies == {k \in 1..Len(rs) : cmds[k].name = "UID COPY"} IN
    IF copies = {} THEN <<>>
    ELSE SubSeq(rs, CHOOSE k \in copies : \A j \in copies : k <= j, Len(rs))

\* message.py:318-416 from _on_received_connection on, each command answered
\* at once with the next response of rs: the first error response is
\* returned; an empty SEARCH answer ends in the retry, which raises
\* (message.py:381-383 with __debug__, 391 without); else True is returned
blocking_from_copy(rs, debug) ==
    LET errors == {k \in 1..Len(rs) : check_for_response_error(rs[k]) # VNone}
        first == CHOOSE k \in errors : \A j \in errors : k <= j
    IN
    IF errors # {} /\ (Len(rs) < 3 \/ first <= 3 \/ HasLastToken(extract_data(rs[3])))
    THEN Returned(check_for_response_error(rs[first]))
    ELSE IF Len(rs) >= 3 /\ ~HasLastToken(extract_data(rs[3]))
    THEN Raised(IF debug THEN "AttributeError" ELSE "TypeError")
    ELSE Returned(VTrue)

\* message.py:413-422 in blocking mode: _on_mailbox_select(select()), then
\* _on_received_connection(self.conn()) behind their decorators
delete_returns(cmds, rs, debug) ==
    IF check_imap_response(select_returns) # VNone
    THEN Returned(check_imap_response(select_returns))
    ELSE IF check_imap_state(connection_returns) # VNone
    THEN Returned(check_imap_state(connection_returns))
    ELSE blocking_from_copy(FromCopy(cmds, rs), debug)

\* the blocking delete() is run against the responses the asynchronous one
\* has just received
delete_blocking ==
    /\ op = "delete"
    /\ Finished
    /\ call' = "delete"
    /\ \E debug \in BOOLEAN :
          /\ args' = [responses |-> resplog, debug |-> debug]
          /\ ret' = delete_returns(cmdlog, resplog, debug)
    /\ UNCHANGED <<progVars, poolVars>>

NextModes ==
    \/ StartDelete
    \/ delete_blocking
    \/ Respond
    \/ Disconnect
    \/ callback_func
    \/ caller
    \/ count_on_connection
    \/ count_on_select_complete
    \/ on_count_complete
    \/ on_mailbox_select
    \/ on_received_connection
    \/ on_message_moved
    \/ on_received_connection_2
    \/ on_trash_selected
    \/ on_received_connection_3
    \/ on_search_for_message_complete
    \/ on_received_connection_4
    \/ on_delete_complete
    \/ on_recevieved_connection_5
    \/ on_expunge_complete
    \/ on_recevieved_connection_6
    \/ on_original_mailbox_reselected

SpecModes == Init /\ [][NextModes]_vars

\* ---------------------------------------------------------------- C39
\* the blocking call was made on the responses of the finished async call
SameResponses ==
    /\ op = "delete" /\ Finished
    /\ call = "delete" /\ args.responses = resplog

\* C39: for the same sequence of server responses, Message.delete called in
\* blocking mode returns the same value that async mode delivers to the
\* callback: on the success path, on every error path and on the retry path.
C39_BlockingEqualsAsync ==
    SameResponses =>
       /\ (ret.raised = "none") = (raised = "none")
       /\ raised = "none" => results = <<ret.value>>

====
